---- MODULE Spec2Model ----
(***************************************************************************)
(* Crank-Nicolson time stepping of the aerosol general dynamic equation    *)
(* (evol_06.py) and the joint state/parameter Kalman filter with a         *)
(* continuity-constrained VAR(p) deposition rate (state_iden_12_main.py).  *)
(*                                                                         *)
(* Numbers.  numpy's float64 arithmetic is modelled by exact arithmetic in *)
(* the prime field Z/P: +, -, * and division are exact, a matrix is        *)
(* singular when its determinant is zero, and every identity of linear     *)
(* algebra that holds over the reals holds here.  Rounding and the order   *)
(* of the reals are not modelled.  P is chosen so that 2 has a square      *)
(* root, which makes the orthonormal continuity basis [1,1]/sqrt(2) exact. *)
(* An inequality found here holds over the reals too; a matrix can be      *)
(* singular here without being so over the reals, and NoiseFreeConfigs12   *)
(* and SingularConfigs12 are the runs whose matrices are singular over the *)
(* reals as well.                                                          *)
(*                                                                         *)
(* Arrays.  A vector is a sequence of numbers, a matrix a sequence of rows.*)
(* A numpy array indexed by time, a[:, k] or a[k], is a sequence whose     *)
(* element k+1 holds column or slice k: At(a, k) reads it, Put(a, k, v)    *)
(* writes it.  Slices a[i0:i1] keep numpy's 0-based half-open bounds.      *)
(***************************************************************************)
EXTENDS Integers, Sequences, FiniteSets, TLC

\* ------------------------------------------------------------------------
\* Bounds of the model
\* ------------------------------------------------------------------------
MaxNT == 3      \* NT ranges over 1..MaxNT

\* ------------------------------------------------------------------------
\* Scalars: the prime field Z/P
\* ------------------------------------------------------------------------
P == 7

FAdd(a, b) == (a + b) % P
FSub(a, b) == (a + P - b) % P
FNeg(a) == (P - a) % P
FMul(a, b) == (a * b) % P
IsZero(a) == a % P = 0
FInv(a) == CHOOSE y \in 1..(P - 1) : (a * y) % P = 1
FDiv(a, b) == FMul(a, FInv(b))
Half(a) == FDiv(a, 2)                       \* a / 2
Sq(a) == FMul(a, a)                         \* a ** 2

\* ------------------------------------------------------------------------
\* Vectors and matrices (numpy)
\* ------------------------------------------------------------------------
RECURSIVE FSum(_, _, _)
\* sum of f[i] for i in lo..hi
FSum(f, lo, hi) == IF lo > hi THEN 0 ELSE FAdd(f[lo], FSum(f, lo + 1, hi))

Rows(A) == Len(A)
Cols(A) == IF Len(A) = 0 THEN 0 ELSE Len(A[1])

\* An array is held as an explicit tuple of its computed entries (numpy
\* evaluates eagerly): Vec and Mat compute every entry of f once.
RECURSIVE Tup(_, _)
Tup(f, n) == IF n = 0 THEN <<>> ELSE Append(Tup(f, n - 1), f[n])
Vec(f) == Tup(f, Len(f))
Mat(f) == Tup([i \in 1..Len(f) |-> Vec(f[i])], Len(f))

ZeroVec(n) == Vec([i \in 1..n |-> 0])                                  \* np.zeros(n)
Zeros(n, m) == Mat([i \in 1..n |-> [j \in 1..m |-> 0]])                \* np.zeros([n, m])
Eye(n) == Mat([i \in 1..n |-> [j \in 1..n |-> IF i = j THEN 1 ELSE 0]]) \* np.eye(n)
\* np.diag(v)
Diag(v) == Mat([i \in 1..Len(v) |-> [j \in 1..Len(v) |-> IF i = j THEN v[i] ELSE 0]])

VecAdd(u, v) == Vec([i \in 1..Len(u) |-> FAdd(u[i], v[i])])
VecSub(u, v) == Vec([i \in 1..Len(u) |-> FSub(u[i], v[i])])
VecScale(c, v) == Vec([i \in 1..Len(v) |-> FMul(c, v[i])])
Dot(u, v) == FSum([i \in 1..Len(u) |-> FMul(u[i], v[i])], 1, Len(u))

MatAdd(A, B) == Mat([i \in 1..Rows(A) |-> [j \in 1..Cols(A) |-> FAdd(A[i][j], B[i][j])]])
MatSub(A, B) == Mat([i \in 1..Rows(A) |-> [j \in 1..Cols(A) |-> FSub(A[i][j], B[i][j])]])
Scale(c, A) == Mat([i \in 1..Rows(A) |-> [j \in 1..Cols(A) |-> FMul(c, A[i][j])]])
\* np.transpose(A)
Transpose(A) == Mat([j \in 1..Cols(A) |-> [i \in 1..Rows(A) |-> A[i][j]]])
\* np.matmul(A, B) for two matrices
MatMul(A, B) ==
    Mat([i \in 1..Rows(A) |-> [j \in 1..Cols(B) |->
        FSum([l \in 1..Rows(B) |-> FMul(A[i][l], B[l][j])], 1, Rows(B))]])
\* np.matmul(A, v) for a matrix and a vector
MatVec(A, v) == Vec([i \in 1..Rows(A) |-> Dot(A[i], v)])

\* v[i0:i1]
SubVec(v, i0, i1) == Vec([i \in 1..(i1 - i0) |-> v[i0 + i]])
\* A[r0:r1, c0:c1]
SubMat(A, r0, r1, c0, c1) ==
    Mat([i \in 1..(r1 - r0) |-> [j \in 1..(c1 - c0) |-> A[r0 + i][c0 + j]]])
\* v[i0:i0+len(w)] = w
SetSub(v, i0, w) ==
    Vec([i \in 1..Len(v) |-> IF i > i0 /\ i <= i0 + Len(w) THEN w[i - i0] ELSE v[i]])
\* A[r0:r0+rows(B), c0:c0+cols(B)] = B
SetBlock(A, r0, c0, B) ==
    Mat([i \in 1..Rows(A) |-> [j \in 1..Cols(A) |->
        IF i > r0 /\ i <= r0 + Rows(B) /\ j > c0 /\ j <= c0 + Cols(B)
        THEN B[i - r0][j - c0] ELSE A[i][j]]])

\* A without row r and column c
Minor(A, r, c) ==
    Mat([i \in 1..(Rows(A) - 1) |-> [j \in 1..(Cols(A) - 1) |->
        A[IF i < r THEN i ELSE i + 1][IF j < c THEN j ELSE j + 1]]])

RECURSIVE Det(_)
Det(A) ==
    IF Rows(A) = 0 THEN 1
    ELSE IF Rows(A) = 1 THEN A[1][1]
    ELSE FSum([j \in 1..Cols(A) |->
                  LET term == FMul(A[1][j], Det(Minor(A, 1, j)))
                  IN  IF j % 2 = 1 THEN term ELSE FNeg(term)],
              1, Cols(A))

\* np.linalg.inv raises LinAlgError("Singular matrix") on a singular matrix
Singular(A) == IsZero(Det(A))
\* np.linalg.inv(A) for a non-singular A: adjugate over determinant
Inv(A) ==
    LET d == FInv(Det(A))
    IN  Mat([i \in 1..Rows(A) |-> [j \in 1..Cols(A) |->
            LET cof == FMul(d, Det(Minor(A, j, i)))
            IN  IF (i + j) % 2 = 0 THEN cof ELSE FNeg(cof)]])

\* time-indexed arrays
At(a, kk) == a[kk + 1]
Put(a, kk, v) == [a EXCEPT ![kk + 1] = v]

\* ------------------------------------------------------------------------
\* Discretisation parameters (scaled down from the case studies' values)
\* ------------------------------------------------------------------------
Ne == 2                                 \* number of elements
Np == 1                                 \* polynomial order per element
N == Ne * Np                            \* degrees of freedom of alpha
Ne_eta == 2                             \* elements of the deposition rate
Np_eta == 1                             \* order per element of the deposition rate
N_eta == Ne_eta * Np_eta                \* degrees of freedom of eta
eta_p == 2                              \* order of the VAR(p) model of eta
N_channels == 1                         \* DMA channels

VARIABLES
    cfg,                    \* the parameters of the run (never assigned after start)
    setup,                  \* state_iden_12: the matrices built before the time loop
    pc,                     \* the statement the script is at
    k,                      \* the loop index of the time loop
    t,                      \* t = np.zeros(NT), the time array
    error,                  \* the uncaught exception that ended the run, or NoError
    log,                    \* history: one entry per executed step / predict / update
    alpha,                  \* evol_06: alpha[:, k]
    F_evolution,            \* evol_06: the current evolution operator
    b_evolution,            \* evol_06: the current additive vector
    x_tilde_c,              \* state_iden_12: filtered means x_tilde_c[:, k]
    Gamma_tilde_c,          \* state_iden_12: filtered covariances Gamma_tilde_c[k]
    x_tilde_c_predict,      \* state_iden_12: predicted means
    Gamma_tilde_c_predict,  \* state_iden_12: predicted covariances
    F,                      \* state_iden_12: F[k]
    b,                      \* state_iden_12: b[:, k]
    model,                  \* state_iden_12: the Kalman_filter object's fields
    Jac,                    \* state_iden_12: J_alpha_star, J_eta_star of the iteration
    smoother_calls,         \* history: the arguments of every smoother call
    output                  \* state_iden_12: x_c, Gamma_c, x, Gamma

vars == <<cfg, setup, pc, k, t, error, log, alpha, F_evolution, b_evolution,
          x_tilde_c, Gamma_tilde_c, x_tilde_c_predict, Gamma_tilde_c_predict,
          F, b, model, Jac, smoother_calls, output>>

vars06 == <<alpha, F_evolution, b_evolution>>
vars12 == <<x_tilde_c, Gamma_tilde_c, x_tilde_c_predict, Gamma_tilde_c_predict,
            F, b, model, Jac, smoother_calls, output>>

NT == cfg.NT
dt == cfg.dt

NoError == [type |-> "none", msg |-> "", line |-> 0]
\* the exception np.linalg.inv raises; the traceback names the line of the call
LinAlgError(line) == [type |-> "LinAlgError", msg |-> "Singular matrix", line |-> line]

\* ------------------------------------------------------------------------
\* evolution_models.tools: GDE_evolution_model and GDE_Jacobian
\* ------------------------------------------------------------------------
\* Discrete condensation operator for the rate c(t) = cond0 + cond1 * t:
\* growth moves number from each degree of freedom to the next one.
CondMat(tt) ==
    LET c == FAdd(cfg.cond0, FMul(cfg.cond1, tt))
    IN  Mat([i \in 1..N |-> [j \in 1..N |->
            IF i = j THEN FNeg(c) ELSE IF i = j + 1 THEN c ELSE 0]])
\* Discrete deposition operator of a known rate depo
DepoMat == Scale(cfg.depo, Eye(N))
\* Discrete deposition operator of basis function j of an unknown rate eta
DepoBasis(j) ==
    Mat([i \in 1..N |-> [l \in 1..N |->
        IF i = l /\ i = ((j - 1) % N) + 1 THEN 1 ELSE 0]])
\* Coagulation tensor entry (i, j, l): loss of i by collision with any l,
\* gain of i from collisions within i - 1.
CoagTensor(i, j, l) ==
    IF i = j THEN FNeg(cfg.coag)
    ELSE IF i = j + 1 /\ l = j THEN cfg.coag
    ELSE 0
\* sum_{j,l} B[i,j,l] a_j a_l
CoagEval(a) ==
    Vec([i \in 1..N |->
        FSum([j \in 1..N |->
            FSum([l \in 1..N |-> FMul(CoagTensor(i, j, l), FMul(a[j], a[l]))], 1, N)],
          1, N)])
\* d/da_m of CoagEval
CoagJacobian(a) ==
    Mat([i \in 1..N |-> [m \in 1..N |->
        FSum([j \in 1..N |->
            FMul(FAdd(CoagTensor(i, j, m), CoagTensor(i, m, j)), a[j])], 1, N)]])

\* evol_06: F.eval(alpha, t) with condensation, deposition and coagulation
F_eval(a, tt) == VecAdd(MatVec(MatSub(CondMat(tt), DepoMat), a), CoagEval(a))
\* evol_06: J_F.eval_d_alpha(alpha, t)
J_F_eval_d_alpha(a, tt) == MatAdd(MatSub(CondMat(tt), DepoMat), CoagJacobian(a))

\* sum_j eta_j * DepoBasis(j)
RECURSIVE DepoOf(_, _)
DepoOf(eta, j) ==
    IF j = 0 THEN Zeros(N, N)
    ELSE MatAdd(DepoOf(eta, j - 1), Scale(eta[j], DepoBasis(j)))
\* state_iden_12: F_alpha.eval(x, t), x = [alpha, eta]: condensation, unknown deposition
F_alpha_eval(x, tt) ==
    LET a == SubVec(x, 0, N)
        eta == SubVec(x, N, N + N_eta)
    IN  MatVec(MatSub(CondMat(tt), DepoOf(eta, N_eta)), a)
\* state_iden_12: J_F_alpha.eval_d_alpha(x, t)
dF_alpha_d_alpha(x, tt) ==
    MatSub(CondMat(tt), DepoOf(SubVec(x, N, N + N_eta), N_eta))
\* state_iden_12: J_F_alpha.eval_d_eta(x, t): column j is -DepoBasis(j) * alpha
dF_alpha_d_eta(x, tt) ==
    LET a == SubVec(x, 0, N)
    IN  Mat([i \in 1..N |-> [j \in 1..N_eta |-> FNeg(MatVec(DepoBasis(j), a)[i])]])

\* ------------------------------------------------------------------------
\* evol_06.py
\* ------------------------------------------------------------------------
\* matrix_multiplier's argument, np.eye(N) - (dt / 2) * J_star
ImplicitMatrix(J_star) == MatSub(Eye(N), Scale(Half(dt), J_star))
\* np.eye(N) + (dt / 2) * J_star
ExplicitMatrix(J_star) == MatAdd(Eye(N), Scale(Half(dt), J_star))

\* compute_evolution_operator(alpha_star, t_star) fails in np.linalg.inv
Evol06Fails(alpha_star, t_star) ==
    Singular(ImplicitMatrix(J_F_eval_d_alpha(alpha_star, t_star)))
\* compute_evolution_operator with the full step dt in the explicit factor
compute_evolution_operator_06_full_step(alpha_star, t_star) ==
    LET J_star == J_F_eval_d_alpha(alpha_star, t_star)
        F_star == VecSub(F_eval(alpha_star, t_star), MatVec(J_star, alpha_star))
        matrix_multiplier == Inv(ImplicitMatrix(J_star))
    IN  [F_evolution |-> MatMul(matrix_multiplier, MatAdd(Eye(N), Scale(dt, J_star))),
         b_evolution |-> MatVec(matrix_multiplier, VecScale(dt, F_star))]
\* compute_evolution_operator(alpha_star, t_star)
compute_evolution_operator_06(alpha_star, t_star) ==
    LET J_star == J_F_eval_d_alpha(alpha_star, t_star)
        F_star == VecSub(F_eval(alpha_star, t_star), MatVec(J_star, alpha_star))
        matrix_multiplier == Inv(ImplicitMatrix(J_star))
    IN  [F_evolution |-> MatMul(matrix_multiplier, ExplicitMatrix(J_star)),
         b_evolution |-> MatVec(matrix_multiplier, VecScale(dt, F_star))]

\* the (state, time) the loop linearises about at iteration kk
LinearisationPoint06(kk) == [x |-> At(alpha, kk), t |-> At(t, kk)]

Field == 0..(P - 1)
Booleans == {TRUE, FALSE}
NTs == 1..MaxNT
ConstVecs(n, S) == {Vec([i \in 1..n |-> v]) : v \in S}

Configs06 ==
    [driver : {"evol_06"}, NT : NTs, dt : {1, 2},
     alpha_0 : ConstVecs(N, {1, 3}),
     cond0 : {1}, cond1 : {0, 1}, depo : {0, 2}, coag : {0, 1}]

Init06 ==
    /\ cfg \in Configs06
    /\ setup = <<>>
    /\ pc = "initial_operator"
    /\ k = 0
    /\ t = ZeroVec(NT)
    /\ error = NoError
    /\ log = <<>>
    /\ alpha = Put(Tup([kk \in 1..NT |-> ZeroVec(N)], NT), 0, cfg.alpha_0)
    /\ F_evolution = <<>>
    /\ b_evolution = <<>>
    /\ x_tilde_c = <<>> /\ Gamma_tilde_c = <<>>
    /\ x_tilde_c_predict = <<>> /\ Gamma_tilde_c_predict = <<>>
    /\ F = <<>> /\ b = <<>> /\ model = <<>> /\ Jac = <<>>
    /\ smoother_calls = <<>> /\ output = <<>>

\* line 125: the operator computed from the initial condition before the loop
InitialOperator06 ==
    /\ cfg.driver = "evol_06" /\ pc = "initial_operator"
    /\ IF Evol06Fails(At(alpha, 0), At(t, 0))
       THEN /\ pc' = "aborted"
            /\ error' = LinAlgError(115)
            /\ UNCHANGED <<F_evolution, b_evolution>>
       ELSE LET op == compute_evolution_operator_06(At(alpha, 0), At(t, 0))
            IN  /\ F_evolution' = op.F_evolution
                /\ b_evolution' = op.b_evolution
                /\ pc' = IF NT - 1 > 0 THEN "operator" ELSE "done"
                /\ error' = error
    /\ UNCHANGED <<cfg, setup, k, t, log, alpha>>
    /\ UNCHANGED vars12

\* line 127: F_evolution, b_evolution = compute_evolution_operator(alpha[:, k], t[k])
Operator06 ==
    /\ cfg.driver = "evol_06" /\ pc = "operator"
    /\ LET at == LinearisationPoint06(k)
       IN  IF Evol06Fails(at.x, at.t)
           THEN /\ pc' = "aborted"
                /\ error' = LinAlgError(115)
                /\ UNCHANGED <<F_evolution, b_evolution>>
           ELSE LET op == compute_evolution_operator_06(at.x, at.t)
                IN  /\ F_evolution' = op.F_evolution
                    /\ b_evolution' = op.b_evolution
                    /\ pc' = "step"
                    /\ error' = error
    /\ UNCHANGED <<cfg, setup, k, t, log, alpha>>
    /\ UNCHANGED vars12

\* a loop that leaves one step early
Step06_early_exit ==
    /\ cfg.driver = "evol_06" /\ pc = "step"
    /\ LET next == VecAdd(MatVec(F_evolution, At(alpha, k)), b_evolution)
       IN  /\ alpha' = Put(alpha, k + 1, next)
           /\ log' = Append(log, [op |-> "step", k |-> k, tk |-> At(t, k),
                                  xin |-> At(alpha, k), xout |-> next,
                                  F |-> F_evolution, b |-> b_evolution])
    /\ t' = Put(t, k + 1, FMul(k + 1, dt))
    /\ k' = k + 1
    /\ pc' = IF k + 1 < NT - 2 THEN "operator" ELSE "done"
    /\ UNCHANGED <<cfg, setup, error, F_evolution, b_evolution>>
    /\ UNCHANGED vars12
\* lines 128-129: alpha[:, k + 1] = F_evolution alpha[:, k] + b_evolution; t[k + 1] = (k + 1) dt
Step06 ==
    /\ cfg.driver = "evol_06" /\ pc = "step"
    /\ LET next == VecAdd(MatVec(F_evolution, At(alpha, k)), b_evolution)
       IN  /\ alpha' = Put(alpha, k + 1, next)
           /\ log' = Append(log, [op |-> "step", k |-> k, tk |-> At(t, k),
                                  xin |-> At(alpha, k), xout |-> next,
                                  F |-> F_evolution, b |-> b_evolution])
    /\ t' = Put(t, k + 1, FMul(k + 1, dt))
    /\ k' = k + 1
    /\ pc' = IF k + 1 < NT - 1 THEN "operator" ELSE "done"
    /\ UNCHANGED <<cfg, setup, error, F_evolution, b_evolution>>
    /\ UNCHANGED vars12

\* ------------------------------------------------------------------------
\* state_iden_12_main.py: set-up before the time loop (lines 56-265)
\* ------------------------------------------------------------------------
num_constraints_eta == Ne_eta - 1
Nc_eta == N_eta - num_constraints_eta
Dim == N + eta_p * Nc_eta                   \* N + eta_p * Nc_eta

\* evolution_models.tools.compute_U for a piecewise-constant rate (Np_eta = 1):
\* continuity leaves the constant functions, with orthonormal basis (1,...,1)/sqrt(N_eta)
compute_U ==
    LET r == CHOOSE y \in 1..(P - 1) : FMul(N_eta, Sq(y)) = 1
        U == Mat([i \in 1..N_eta |-> [j \in 1..Nc_eta |-> r]])
    IN  [U_eta |-> U, UT_eta |-> Transpose(U)]
U_eta == compute_U.U_eta
UT_eta == compute_U.UT_eta

\* lines 62-66, after i iterations of the loop
\* a stacking loop that writes every copy of U_eta into the first block column
RECURSIVE U_eta_p_loop_first_column(_)
U_eta_p_loop_first_column(i) ==
    IF i = 0 THEN Zeros(eta_p * N_eta, eta_p * Nc_eta)
    ELSE SetBlock(U_eta_p_loop_first_column(i - 1), (i - 1) * N_eta, 0, U_eta)
RECURSIVE U_eta_p_loop(_)
U_eta_p_loop(i) ==
    IF i = 0 THEN Zeros(eta_p * N_eta, eta_p * Nc_eta)
    ELSE SetBlock(U_eta_p_loop(i - 1), (i - 1) * N_eta, (i - 1) * Nc_eta, U_eta)
RECURSIVE UT_eta_p_loop(_)
UT_eta_p_loop(i) ==
    IF i = 0 THEN Zeros(eta_p * Nc_eta, eta_p * N_eta)
    ELSE SetBlock(UT_eta_p_loop(i - 1), (i - 1) * Nc_eta, (i - 1) * N_eta, UT_eta)
U_eta_p == U_eta_p_loop(eta_p)
UT_eta_p == UT_eta_p_loop(eta_p)

\* lines 73-77; the loop variable i of the source is i - 1 here
RECURSIVE A_eta_loop(_, _)
A_eta_loop(eta_A, i) ==
    IF i = 0 THEN Zeros(eta_p * N_eta, eta_p * N_eta)
    ELSE SetBlock(SetBlock(A_eta_loop(eta_A, i - 1), 0, (i - 1) * N_eta, eta_A[i]),
                  i * N_eta, (i - 1) * N_eta, Eye(N_eta))
\* a transition matrix that keeps the coefficient row but not the identity blocks
A_eta_of_without_shift(eta_A) ==
    SetBlock(SetBlock(A_eta_loop(eta_A, eta_p - 1), 0, (eta_p - 1) * N_eta, eta_A[eta_p]),
             N_eta, 0, Zeros((eta_p - 1) * N_eta, eta_p * N_eta))
A_eta_of(eta_A) ==
    SetBlock(A_eta_loop(eta_A, eta_p - 1), 0, (eta_p - 1) * N_eta, eta_A[eta_p])

\* lines 80-83
RECURSIVE B_eta_loop(_, _)
B_eta_loop(eta_A, i) ==
    IF i = 0 THEN Zeros(N_eta, eta_p * N_eta)
    ELSE SetBlock(B_eta_loop(eta_A, i - 1), 0, (i - 1) * N_eta, eta_A[i])
\* a B_eta that holds the coefficient row only, without the current lag
B_eta_of_without_selector(eta_A) == B_eta_loop(eta_A, eta_p)
B_eta_of(eta_A) ==
    LET B0 == B_eta_loop(eta_A, eta_p)
    IN  SetBlock(B0, 0, 0, MatAdd(SubMat(B0, 0, N_eta, 0, N_eta), Eye(N_eta)))

\* a selector that picks the previous lag (block 1) instead of the current one
C_eta_previous_lag ==
    SetBlock(Zeros(Nc_eta, eta_p * Nc_eta), 0, (eta_p - 1) * Nc_eta, Eye(Nc_eta))
\* lines 86-87
C_eta == SetBlock(Zeros(Nc_eta, eta_p * Nc_eta), 0, 0, Eye(Nc_eta))

\* basic_tools.compute_correlated_covariance_matrix for Np = 1: variance
\* sigma^2 on the diagonal, correlation * sigma^2 between neighbours
compute_correlated_covariance_matrix(n, sigma, correlation) ==
    Mat([i \in 1..n |-> [j \in 1..n |->
        IF i = j THEN Sq(sigma) ELSE FMul(correlation, Sq(sigma))]])

\* lines 169-179: M and H; the collaborators' operators are constant matrices
M_of(c) == IF c.use_DMPS_observation_model THEN N_channels ELSE Len(c.Y[1])
H_alpha_of(c) ==
    Mat([i \in 1..M_of(c) |-> [j \in 1..N |->
        IF c.use_DMPS_observation_model THEN 2 ELSE 1]])
\* an observation operator that also observes the parameter stack
H_of_observing_parameters(c) ==
    SetBlock(SetBlock(Zeros(M_of(c), Dim), 0, 0, H_alpha_of(c)), 0, N, H_alpha_of(c))
H_of(c) == SetBlock(Zeros(M_of(c), Dim), 0, 0, H_alpha_of(c))

\* lines 184-188
Gamma_v_of(c) ==
    Tup([kk \in 1..c.NT |->
            MatAdd(Scale(Sq(c.sigma_Y_multiplier), Diag(c.Y[kk])),
                   Scale(Sq(c.sigma_v), Eye(M_of(c))))], c.NT)

\* lines 195-208
Gamma_alpha_w_of(c) ==
    compute_correlated_covariance_matrix(N, c.sigma_alpha_w, c.sigma_alpha_w_correlation)
\* a process-noise covariance cut down to the reduced size instead of transformed
Gamma_eta_tilde_c_w_of_truncated(c) ==
    LET Gamma_eta_w ==
            compute_correlated_covariance_matrix(N_eta, c.sigma_eta_w, c.sigma_eta_w_correlation)
        Gamma_eta_tilde_w ==
            SetBlock(Zeros(eta_p * N_eta, eta_p * N_eta), 0, 0, Gamma_eta_w)
    IN  SubMat(Gamma_eta_tilde_w, 0, eta_p * Nc_eta, 0, eta_p * Nc_eta)
Gamma_eta_tilde_c_w_of(c) ==
    LET Gamma_eta_w ==
            compute_correlated_covariance_matrix(N_eta, c.sigma_eta_w, c.sigma_eta_w_correlation)
        Gamma_eta_tilde_w ==
            SetBlock(Zeros(eta_p * N_eta, eta_p * N_eta), 0, 0, Gamma_eta_w)
    IN  MatMul(UT_eta_p, MatMul(Gamma_eta_tilde_w, U_eta_p))
Gamma_tilde_c_w_of(c) ==
    SetBlock(SetBlock(Zeros(Dim, Dim), 0, 0, Gamma_alpha_w_of(c)),
             N, N, Gamma_eta_tilde_c_w_of(c))

\* lines 224-228, after i iterations of the loop
RECURSIVE eta_tilde_prior_loop(_, _)
eta_tilde_prior_loop(c, i) ==
    IF i = 0 THEN ZeroVec(eta_p * N_eta)
    ELSE SetSub(eta_tilde_prior_loop(c, i - 1), (i - 1) * N_eta, c.eta_prior)
RECURSIVE Gamma_eta_tilde_prior_loop(_, _)
Gamma_eta_tilde_prior_loop(c, i) ==
    IF i = 0 THEN Zeros(eta_p * N_eta, eta_p * N_eta)
    ELSE SetBlock(Gamma_eta_tilde_prior_loop(c, i - 1), (i - 1) * N_eta, (i - 1) * N_eta,
                  compute_correlated_covariance_matrix(N_eta, c.sigma_eta_prior,
                                                       FDiv(1, 1000)))
\* lines 230-231
eta_tilde_c_prior_of(c) == MatVec(UT_eta_p, eta_tilde_prior_loop(c, eta_p))
Gamma_eta_tilde_c_prior_of(c) ==
    MatMul(UT_eta_p, MatMul(Gamma_eta_tilde_prior_loop(c, eta_p), U_eta_p))
\* a prior state that fills only the current lag with the reduced eta prior
x_tilde_c_prior_of_current_lag_only(c) ==
    SetSub(SetSub(ZeroVec(Dim), 0, c.alpha_prior), N, MatVec(UT_eta, c.eta_prior))
\* lines 234-239
x_tilde_c_prior_of(c) ==
    SetSub(SetSub(ZeroVec(Dim), 0, c.alpha_prior), N, eta_tilde_c_prior_of(c))
Gamma_tilde_c_prior_of(c) ==
    SetBlock(SetBlock(Zeros(Dim, Dim), 0, 0,
                      compute_correlated_covariance_matrix(N, c.sigma_alpha_prior,
                                                           FDiv(1, 1000))),
             N, N, Gamma_eta_tilde_c_prior_of(c))

SetupOf(c) ==
    [A_eta |-> A_eta_of(c.eta_A),
     B_eta |-> B_eta_of(c.eta_A),
     M |-> M_of(c),
     H |-> H_of(c),
     Gamma_v |-> Gamma_v_of(c),
     Gamma_tilde_c_w |-> Gamma_tilde_c_w_of(c),
     x_tilde_c_prior |-> x_tilde_c_prior_of(c),
     Gamma_tilde_c_prior |-> Gamma_tilde_c_prior_of(c),
     BAE_mean |-> Vec([i \in 1..Dim |-> 1]),
     BAE_covariance |-> Eye(Dim)]

A_eta == setup.A_eta
B_eta == setup.B_eta
H == setup.H
Y == cfg.Y

\* ------------------------------------------------------------------------
\* state_iden_12_main.py: the linearisation functions (lines 101-164)
\* ------------------------------------------------------------------------
\* lines 103-111 and 120-126: the unconstrained state [alpha, eta] of the current lag
x_star_of(x_tilde_c_star) ==
    LET x_c_star ==
            SetSub(SetSub(ZeroVec(N + Nc_eta), 0, SubVec(x_tilde_c_star, 0, N)),
                   N, MatVec(C_eta, SubVec(x_tilde_c_star, N, N + eta_p * Nc_eta)))
    IN  SetSub(SetSub(ZeroVec(N + N_eta), 0, SubVec(x_c_star, 0, N)),
               N, MatVec(U_eta, SubVec(x_c_star, N, N + Nc_eta)))

\* compute_evolution_operator_Jacobians(x_tilde_c_star, t_star)
compute_evolution_operator_Jacobians(x_tilde_c_star, t_star) ==
    LET x_star == x_star_of(x_tilde_c_star)
    IN  [J_alpha_star |-> dF_alpha_d_alpha(x_star, t_star),
         J_eta_star |-> dF_alpha_d_eta(x_star, t_star)]

\* line 131
F_star_of(x_star, t_star, J_alpha_star, J_eta_star) ==
    VecSub(VecSub(F_alpha_eval(x_star, t_star),
                  MatVec(J_alpha_star, SubVec(x_star, 0, N))),
           MatVec(J_eta_star, SubVec(x_star, N, N + N_eta)))

\* a joint transition whose parameter rows are discretised with the time step
\* like the alpha rows
compute_evolution_operator_discretised_parameters(x_tilde_c_star, t_star, J_alpha_star, J_eta_star) ==
    LET x_star == x_star_of(x_tilde_c_star)
        F_star == F_star_of(x_star, t_star, J_alpha_star, J_eta_star)
        matrix_multiplier == Inv(ImplicitMatrix(J_alpha_star))
        F_evol_alpha == MatMul(matrix_multiplier, ExplicitMatrix(J_alpha_star))
        F_evol_eta ==
            MatMul(MatMul(MatMul(matrix_multiplier, Scale(Half(dt), J_eta_star)), B_eta),
                   U_eta_p)
        F_row_eta == Scale(dt, MatMul(UT_eta_p, MatMul(A_eta, U_eta_p)))
    IN  [F_evolution |->
            SetBlock(SetBlock(SetBlock(Zeros(Dim, Dim), 0, 0, F_evol_alpha),
                              0, N, F_evol_eta),
                     N, N, F_row_eta),
         b_evolution |->
            SetSub(ZeroVec(Dim), 0, MatVec(matrix_multiplier, VecScale(dt, F_star)))]
\* compute_evolution_operator(x_tilde_c_star, t_star, J_alpha_star, J_eta_star)
compute_evolution_operator(x_tilde_c_star, t_star, J_alpha_star, J_eta_star) ==
    LET x_star == x_star_of(x_tilde_c_star)
        F_star == F_star_of(x_star, t_star, J_alpha_star, J_eta_star)
        matrix_multiplier == Inv(ImplicitMatrix(J_alpha_star))
        F_evol_alpha == MatMul(matrix_multiplier, ExplicitMatrix(J_alpha_star))
        F_evol_eta ==
            MatMul(MatMul(MatMul(matrix_multiplier, Scale(Half(dt), J_eta_star)), B_eta),
                   U_eta_p)
        F_row_eta == MatMul(UT_eta_p, MatMul(A_eta, U_eta_p))
    IN  [F_evolution |->
            SetBlock(SetBlock(SetBlock(Zeros(Dim, Dim), 0, 0, F_evol_alpha),
                              0, N, F_evol_eta),
                     N, N, F_row_eta),
         b_evolution |->
            SetSub(ZeroVec(Dim), 0, MatVec(matrix_multiplier, VecScale(dt, F_star)))]

\* the parameter-induced term of line 164
Gamma_induced(Gamma_tilde_c_w, J_alpha_star, J_eta_star) ==
    LET Gamma_eta_w ==
            MatMul(U_eta, MatMul(SubMat(Gamma_tilde_c_w, N, N + Nc_eta, N, N + Nc_eta),
                                 UT_eta))
        matrix_multiplier == Inv(ImplicitMatrix(J_alpha_star))
        Gamma_Jac_eta == MatMul(J_eta_star, MatMul(Gamma_eta_w, Transpose(J_eta_star)))
    IN  Scale(FDiv(Sq(dt), 4),
              MatMul(matrix_multiplier, MatMul(Gamma_Jac_eta, Transpose(matrix_multiplier))))

\* compute_evolution_operator_alpha_covariance(Gamma_tilde_c_w, J_alpha_star, J_eta_star)
compute_evolution_operator_alpha_covariance(Gamma_tilde_c_w, J_alpha_star, J_eta_star) ==
    MatAdd(SubMat(Gamma_tilde_c_w, 0, N, 0, N),
           Gamma_induced(Gamma_tilde_c_w, J_alpha_star, J_eta_star))

\* ------------------------------------------------------------------------
\* basic_tools: Kalman_filter and compute_fixed_interval_Kalman_smoother
\* ------------------------------------------------------------------------
\* Kalman_filter(F[0], H, Gamma_tilde_c_w, Gamma_v, NT, additive_evolution_vector=b[:, 0], ...)
Kalman_filter(c, su) ==
    [F |-> Zeros(Dim, Dim),
     H |-> su.H,
     Gamma_w |-> su.Gamma_tilde_c_w,
     Gamma_v |-> su.Gamma_v,
     NT |-> c.NT,
     additive_evolution_vector |-> ZeroVec(Dim),
     mean_epsilon |-> IF c.use_BAE THEN su.BAE_mean ELSE ZeroVec(Dim),
     Gamma_epsilon |-> IF c.use_BAE THEN su.BAE_covariance ELSE Zeros(Dim, Dim)]

\* model.predict(x, Gamma, k): mean F x + b, covariance F Gamma F^T + Gamma_w,
\* plus the approximation-error mean and covariance
KF_predict(m, x, Gamma, kk) ==
    [x |-> VecAdd(VecAdd(MatVec(m.F, x), m.additive_evolution_vector), m.mean_epsilon),
     Gamma |-> MatAdd(MatAdd(MatMul(m.F, MatMul(Gamma, Transpose(m.F))), m.Gamma_w),
                      m.Gamma_epsilon)]

\* the innovation covariance H Gamma H^T + Gamma_v[k]
InnovationCov(m, Gamma_predict, kk) ==
    MatAdd(MatMul(m.H, MatMul(Gamma_predict, Transpose(m.H))), At(m.Gamma_v, kk))
\* model.update fails when the innovation covariance cannot be inverted
KF_update_fails(m, Gamma_predict, kk) == Singular(InnovationCov(m, Gamma_predict, kk))
\* model.update(x_predict, Gamma_predict, y, k): Kalman gain, Joseph-form covariance
KF_update(m, x_predict, Gamma_predict, y, kk) ==
    LET K == MatMul(Gamma_predict,
                    MatMul(Transpose(m.H), Inv(InnovationCov(m, Gamma_predict, kk))))
        IKH == MatSub(Eye(Dim), MatMul(K, m.H))
    IN  [x |-> VecAdd(x_predict, MatVec(K, VecSub(y, MatVec(m.H, x_predict)))),
         Gamma |-> MatAdd(MatMul(IKH, MatMul(Gamma_predict, Transpose(IKH))),
                          MatMul(K, MatMul(At(m.Gamma_v, kk), Transpose(K))))]

\* One backward pass of the fixed-interval (Rauch-Tung-Striebel) smoother from
\* index kk down to 0; sm holds the smoothed trajectory so far.
RECURSIVE SmootherPass(_, _, _)
SmootherPass(a, kk, sm) ==
    IF kk < 0 \/ sm.failed THEN sm
    ELSE IF Singular(At(a.Gamma_predict, kk + 1))
    THEN [sm EXCEPT !.failed = TRUE]
    ELSE LET G == MatMul(At(a.Gamma, kk),
                         MatMul(Transpose(At(a.F, kk)), Inv(At(a.Gamma_predict, kk + 1))))
             xs == VecAdd(At(a.x, kk),
                          MatVec(G, VecSub(At(sm.x, kk + 1), At(a.x_predict, kk + 1))))
             Gs == MatAdd(At(a.Gamma, kk),
                          MatMul(G, MatMul(MatSub(At(sm.Gamma, kk + 1),
                                                  At(a.Gamma_predict, kk + 1)),
                                           Transpose(G))))
         IN  SmootherPass(a, kk - 1,
                          [sm EXCEPT !.x = Put(sm.x, kk, xs), !.Gamma = Put(sm.Gamma, kk, Gs)])
\* compute_fixed_interval_Kalman_smoother(F, NT, N, x, Gamma, x_predict, Gamma_predict)
compute_fixed_interval_Kalman_smoother(a) ==
    SmootherPass(a, a.NT - 2, [x |-> a.x, Gamma |-> a.Gamma, failed |-> FALSE])

\* ------------------------------------------------------------------------
\* state_iden_12_main.py: the run
\* ------------------------------------------------------------------------
ObsValues == {0, 1}
\* the measurement series Y: one value at the even time indices, one at the odd
\* ones, and one series whose columns all differ (column j holds j + 1)
Observations(nt) ==
    {Tup([kk \in 1..nt |-> IF kk % 2 = 1 THEN even ELSE odd], nt) :
        even \in ConstVecs(N_channels, ObsValues), odd \in ConstVecs(N_channels, ObsValues)}
    \cup {Tup([kk \in 1..nt |-> Vec([c \in 1..N_channels |-> kk % P])], nt)}
\* eta_A of a random walk: eta_A[0] = I, the other lags zero
IdentityAR == Tup([i \in 1..eta_p |-> IF i = 1 THEN Eye(N_eta) ELSE Zeros(N_eta, N_eta)], eta_p)
\* eta_A with non-symmetric coefficient matrices on every lag
MixedAR == Tup([i \in 1..eta_p |->
                  Mat([r \in 1..N_eta |-> [c \in 1..N_eta |->
                      IF r = c \/ c = r + i - 1 THEN 1 ELSE 0]])], eta_p)

\* the parameter files the runs are drawn from
MainConfigs12 ==
    UNION {
      [driver : {"state_iden_12"}, NT : {nt}, dt : {1, 2},
       smoothing : Booleans, use_BAE : Booleans,
       use_DMPS_observation_model : Booleans,
       Y : Observations(nt),
       alpha_prior : ConstVecs(N, {1}), eta_prior : ConstVecs(N_eta, {1}),
       sigma_v : {1}, sigma_Y_multiplier : {1},
       sigma_alpha_w : {1}, sigma_alpha_w_correlation : {2},
       sigma_eta_w : {1}, sigma_eta_w_correlation : {3},
       sigma_alpha_prior : {1}, sigma_eta_prior : {1},
       eta_A : {IdentityAR, MixedAR},
       cond0 : {1}, cond1 : {1}] : nt \in NTs }
\* no noise on alpha, no observation noise, zero prior and zero data: the
\* innovation covariance of the first update is exactly zero
NoiseFreeConfigs12 ==
    UNION {
      [driver : {"state_iden_12"}, NT : {nt}, dt : {2},
       smoothing : Booleans, use_BAE : {FALSE},
       use_DMPS_observation_model : {TRUE},
       Y : {Tup([kk \in 1..nt |-> ZeroVec(N_channels)], nt)},
       alpha_prior : ConstVecs(N, {0}), eta_prior : ConstVecs(N_eta, {1}),
       sigma_v : {0}, sigma_Y_multiplier : {1},
       sigma_alpha_w : {0}, sigma_alpha_w_correlation : {2},
       sigma_eta_w : {1}, sigma_eta_w_correlation : {3},
       sigma_alpha_prior : {0}, sigma_eta_prior : {1},
       eta_A : {IdentityAR},
       cond0 : {1}, cond1 : {1}] : nt \in NTs }
\* a condensation rate of -2 (P - 2 in the field) with deposition rate 1 puts 1 on
\* the diagonal of the triangular J_alpha at the prior, and with dt = 2 the matrix
\* I - (dt / 2) J_alpha has a zero diagonal
SingularConfigs12 ==
    UNION {
      [driver : {"state_iden_12"}, NT : {nt}, dt : {2},
       smoothing : Booleans, use_BAE : {FALSE},
       use_DMPS_observation_model : {TRUE},
       Y : {Tup([kk \in 1..nt |-> ZeroVec(N_channels)], nt)},
       alpha_prior : ConstVecs(N, {1}), eta_prior : ConstVecs(N_eta, {1}),
       sigma_v : {1}, sigma_Y_multiplier : {1},
       sigma_alpha_w : {1}, sigma_alpha_w_correlation : {2},
       sigma_eta_w : {1}, sigma_eta_w_correlation : {3},
       sigma_alpha_prior : {1}, sigma_eta_prior : {1},
       eta_A : {IdentityAR},
       cond0 : {P - 2}, cond1 : {0}] : nt \in NTs }
Configs12 == MainConfigs12 \cup NoiseFreeConfigs12 \cup SingularConfigs12

Init12 ==
    /\ cfg \in Configs12
    /\ setup = SetupOf(cfg)
    /\ pc = IF NT - 1 > 0 THEN "jacobians" ELSE "smoothing"
    /\ k = 0
    /\ t = ZeroVec(NT)
    /\ error = NoError
    /\ log = <<>>
    /\ alpha = <<>> /\ F_evolution = <<>> /\ b_evolution = <<>>
    \* lines 244-249
    /\ x_tilde_c = Put(Tup([kk \in 1..NT |-> ZeroVec(Dim)], NT), 0, setup.x_tilde_c_prior)
    /\ Gamma_tilde_c = Put(Tup([kk \in 1..NT |-> Zeros(Dim, Dim)], NT), 0, setup.Gamma_tilde_c_prior)
    /\ x_tilde_c_predict = Put(Tup([kk \in 1..NT |-> ZeroVec(Dim)], NT), 0, setup.x_tilde_c_prior)
    /\ Gamma_tilde_c_predict =
           Put(Tup([kk \in 1..NT |-> Zeros(Dim, Dim)], NT), 0, setup.Gamma_tilde_c_prior)
    \* lines 254-255
    /\ F = Tup([kk \in 1..NT |-> Zeros(Dim, Dim)], NT)
    /\ b = Tup([kk \in 1..NT |-> ZeroVec(Dim)], NT)
    \* lines 260-265
    /\ model = Kalman_filter(cfg, setup)
    /\ Jac = [J_alpha_star |-> Zeros(N, N), J_eta_star |-> Zeros(N, N_eta)]
    /\ smoother_calls = <<>>
    /\ output = <<>>

\* linearising about the predicted state instead of the filtered one
LinearisationPoint12_predicted(kk) == [x |-> At(x_tilde_c_predict, kk), t |-> At(t, kk)]
\* the (state, time) the loop linearises about at iteration kk (lines 273-274)
LinearisationPoint12(kk) == [x |-> At(x_tilde_c, kk), t |-> At(t, kk)]

\* line 273
Jacobians12 ==
    /\ cfg.driver = "state_iden_12" /\ pc = "jacobians"
    /\ LET at == LinearisationPoint12(k)
       IN  Jac' = compute_evolution_operator_Jacobians(at.x, at.t)
    /\ pc' = "operator"
    /\ UNCHANGED <<cfg, setup, k, t, error, log, x_tilde_c, Gamma_tilde_c,
                   x_tilde_c_predict, Gamma_tilde_c_predict, F, b, model,
                   smoother_calls, output>>
    /\ UNCHANGED vars06

\* a loop that skips the rest of an iteration whose linearisation cannot be inverted
Operator12_skip_step ==
    /\ cfg.driver = "state_iden_12" /\ pc = "operator"
    /\ IF Singular(ImplicitMatrix(Jac.J_alpha_star))
       THEN /\ pc' = "time"
            /\ UNCHANGED <<F, b>>
       ELSE LET at == LinearisationPoint12(k)
                op == compute_evolution_operator(at.x, at.t, Jac.J_alpha_star,
                                                 Jac.J_eta_star)
            IN  /\ F' = Put(F, k, op.F_evolution)
                /\ b' = Put(b, k, op.b_evolution)
                /\ pc' = "model"
    /\ UNCHANGED <<cfg, setup, k, t, error, log, x_tilde_c, Gamma_tilde_c,
                   x_tilde_c_predict, Gamma_tilde_c_predict, model, Jac,
                   smoother_calls, output>>
    /\ UNCHANGED vars06
\* a step that stores its transition at the index it predicts
Operator12_next_index ==
    /\ cfg.driver = "state_iden_12" /\ pc = "operator"
    /\ IF Singular(ImplicitMatrix(Jac.J_alpha_star))
       THEN /\ pc' = "aborted"
            /\ error' = LinAlgError(133)
            /\ UNCHANGED <<F, b>>
       ELSE LET at == LinearisationPoint12(k)
                op == compute_evolution_operator(at.x, at.t, Jac.J_alpha_star,
                                                 Jac.J_eta_star)
            IN  /\ F' = Put(F, k + 1, op.F_evolution)
                /\ b' = Put(b, k + 1, op.b_evolution)
                /\ pc' = "model"
                /\ error' = error
    /\ UNCHANGED <<cfg, setup, k, t, log, x_tilde_c, Gamma_tilde_c,
                   x_tilde_c_predict, Gamma_tilde_c_predict, model, Jac,
                   smoother_calls, output>>
    /\ UNCHANGED vars06
\* line 274; np.linalg.inv of line 133 raises on a singular matrix
Operator12 ==
    /\ cfg.driver = "state_iden_12" /\ pc = "operator"
    /\ IF Singular(ImplicitMatrix(Jac.J_alpha_star))
       THEN /\ pc' = "aborted"
            /\ error' = LinAlgError(133)
            /\ UNCHANGED <<F, b>>
       ELSE LET at == LinearisationPoint12(k)
                op == compute_evolution_operator(at.x, at.t, Jac.J_alpha_star,
                                                 Jac.J_eta_star)
            IN  /\ F' = Put(F, k, op.F_evolution)
                /\ b' = Put(b, k, op.b_evolution)
                /\ pc' = "model"
                /\ error' = error
    /\ UNCHANGED <<cfg, setup, k, t, log, x_tilde_c, Gamma_tilde_c,
                   x_tilde_c_predict, Gamma_tilde_c_predict, model, Jac,
                   smoother_calls, output>>
    /\ UNCHANGED vars06

\* line 275
Model12 ==
    /\ cfg.driver = "state_iden_12" /\ pc = "model"
    /\ model' = [model EXCEPT !.F = At(F, k), !.additive_evolution_vector = At(b, k)]
    /\ pc' = "covariance"
    /\ UNCHANGED <<cfg, setup, k, t, error, log, x_tilde_c, Gamma_tilde_c,
                   x_tilde_c_predict, Gamma_tilde_c_predict, F, b, Jac,
                   smoother_calls, output>>
    /\ UNCHANGED vars06

\* a step that replaces the filter's process noise by a matrix holding the new
\* alpha block only
Covariance12_whole_matrix ==
    /\ cfg.driver = "state_iden_12" /\ pc = "covariance"
    /\ IF Singular(ImplicitMatrix(Jac.J_alpha_star))
       THEN /\ pc' = "aborted"
            /\ error' = LinAlgError(161)
            /\ model' = model
       ELSE /\ model' = [model EXCEPT !.Gamma_w =
                           SetBlock(Zeros(Dim, Dim), 0, 0,
                               compute_evolution_operator_alpha_covariance(
                                   model.Gamma_w, Jac.J_alpha_star, Jac.J_eta_star))]
            /\ pc' = "predict"
            /\ error' = error
    /\ UNCHANGED <<cfg, setup, k, t, log, x_tilde_c, Gamma_tilde_c,
                   x_tilde_c_predict, Gamma_tilde_c_predict, F, b, Jac,
                   smoother_calls, output>>
    /\ UNCHANGED vars06
\* line 276; np.linalg.inv of line 161 raises on a singular matrix
Covariance12 ==
    /\ cfg.driver = "state_iden_12" /\ pc = "covariance"
    /\ IF Singular(ImplicitMatrix(Jac.J_alpha_star))
       THEN /\ pc' = "aborted"
            /\ error' = LinAlgError(161)
            /\ model' = model
       ELSE /\ model' = [model EXCEPT !.Gamma_w =
                           SetBlock(model.Gamma_w, 0, 0,
                               compute_evolution_operator_alpha_covariance(
                                   model.Gamma_w, Jac.J_alpha_star, Jac.J_eta_star))]
            /\ pc' = "predict"
            /\ error' = error
    /\ UNCHANGED <<cfg, setup, k, t, log, x_tilde_c, Gamma_tilde_c,
                   x_tilde_c_predict, Gamma_tilde_c_predict, F, b, Jac,
                   smoother_calls, output>>
    /\ UNCHANGED vars06

\* the arguments of model.predict at iteration kk (line 277)
PredictArgs(kk) == [x |-> At(x_tilde_c, kk), Gamma |-> At(Gamma_tilde_c, kk), k |-> kk]
\* an update that corrects the previous filtered estimate instead of the prediction
UpdateArgs_filtered(kk) ==
    [x |-> At(x_tilde_c, kk), Gamma |-> At(Gamma_tilde_c, kk),
     y |-> At(Y, kk + 1), k |-> kk]
\* an update that assimilates the observation column of the step it starts from
UpdateArgs_column_k(kk) ==
    [x |-> At(x_tilde_c_predict, kk + 1), Gamma |-> At(Gamma_tilde_c_predict, kk + 1),
     y |-> At(Y, kk), k |-> kk]
\* the arguments of model.update at iteration kk (line 278)
UpdateArgs(kk) ==
    [x |-> At(x_tilde_c_predict, kk + 1), Gamma |-> At(Gamma_tilde_c_predict, kk + 1),
     y |-> At(Y, kk + 1), k |-> kk]

\* line 277
Predict12 ==
    /\ cfg.driver = "state_iden_12" /\ pc = "predict"
    /\ LET a == PredictArgs(k)
           r == KF_predict(model, a.x, a.Gamma, a.k)
       IN  /\ x_tilde_c_predict' = Put(x_tilde_c_predict, k + 1, r.x)
           /\ Gamma_tilde_c_predict' = Put(Gamma_tilde_c_predict, k + 1, r.Gamma)
           /\ log' = Append(log, [op |-> "predict", k |-> k, tk |-> At(t, k), args |-> a,
                                  model |-> model, Jac |-> Jac, out |-> r])
    /\ pc' = "update"
    /\ UNCHANGED <<cfg, setup, k, t, error, x_tilde_c, Gamma_tilde_c, F, b, model, Jac,
                   smoother_calls, output>>
    /\ UNCHANGED vars06

\* an update that overwrites the filtered estimate of index k in place
Update12_in_place ==
    /\ cfg.driver = "state_iden_12" /\ pc = "update"
    /\ LET a == UpdateArgs(k)
       IN  IF KF_update_fails(model, a.Gamma, a.k)
           THEN /\ pc' = "aborted"
                /\ error' = LinAlgError(278)
                /\ UNCHANGED <<x_tilde_c, Gamma_tilde_c, log>>
           ELSE LET r == KF_update(model, a.x, a.Gamma, a.y, a.k)
                IN  /\ x_tilde_c' = Put(Put(x_tilde_c, k + 1, r.x), k, r.x)
                    /\ Gamma_tilde_c' = Put(Put(Gamma_tilde_c, k + 1, r.Gamma), k, r.Gamma)
                    /\ log' = Append(log, [op |-> "update", k |-> k, tk |-> At(t, k),
                                           args |-> a, model |-> model, Jac |-> Jac,
                                           out |-> r])
                    /\ pc' = "time"
                    /\ error' = error
    /\ UNCHANGED <<cfg, setup, k, t, x_tilde_c_predict, Gamma_tilde_c_predict, F, b,
                   model, Jac, smoother_calls, output>>
    /\ UNCHANGED vars06
\* line 278
Update12 ==
    /\ cfg.driver = "state_iden_12" /\ pc = "update"
    /\ LET a == UpdateArgs(k)
       IN  IF KF_update_fails(model, a.Gamma, a.k)
           THEN /\ pc' = "aborted"
                /\ error' = LinAlgError(278)
                /\ UNCHANGED <<x_tilde_c, Gamma_tilde_c, log>>
           ELSE LET r == KF_update(model, a.x, a.Gamma, a.y, a.k)
                IN  /\ x_tilde_c' = Put(x_tilde_c, k + 1, r.x)
                    /\ Gamma_tilde_c' = Put(Gamma_tilde_c, k + 1, r.Gamma)
                    /\ log' = Append(log, [op |-> "update", k |-> k, tk |-> At(t, k),
                                           args |-> a, model |-> model, Jac |-> Jac,
                                           out |-> r])
                    /\ pc' = "time"
                    /\ error' = error
    /\ UNCHANGED <<cfg, setup, k, t, x_tilde_c_predict, Gamma_tilde_c_predict, F, b,
                   model, Jac, smoother_calls, output>>
    /\ UNCHANGED vars06

\* a loop that keeps a step's transition only when smoothing is requested
Time12_discarding ==
    /\ cfg.driver = "state_iden_12" /\ pc = "time"
    /\ t' = Put(t, k + 1, FMul(k + 1, dt))
    /\ k' = k + 1
    /\ pc' = IF k + 1 < NT - 1 THEN "jacobians" ELSE "smoothing"
    /\ F' = IF cfg.smoothing THEN F ELSE Put(F, k, Zeros(Dim, Dim))
    /\ b' = IF cfg.smoothing THEN b ELSE Put(b, k, ZeroVec(Dim))
    /\ UNCHANGED <<cfg, setup, error, log, x_tilde_c, Gamma_tilde_c,
                   x_tilde_c_predict, Gamma_tilde_c_predict, model, Jac,
                   smoother_calls, output>>
    /\ UNCHANGED vars06
\* line 279 and the loop header of line 272
Time12 ==
    /\ cfg.driver = "state_iden_12" /\ pc = "time"
    /\ t' = Put(t, k + 1, FMul(k + 1, dt))
    /\ k' = k + 1
    /\ pc' = IF k + 1 < NT - 1 THEN "jacobians" ELSE "smoothing"
    /\ UNCHANGED <<cfg, setup, error, log, x_tilde_c, Gamma_tilde_c,
                   x_tilde_c_predict, Gamma_tilde_c_predict, F, b, model, Jac,
                   smoother_calls, output>>
    /\ UNCHANGED vars06

\* a smoother call that is handed the filtered trajectory in place of the predicted one
SmootherArgs_filtered_as_predicted ==
    [F |-> F, NT |-> NT, N |-> Dim, x |-> x_tilde_c, Gamma |-> Gamma_tilde_c,
     x_predict |-> x_tilde_c, Gamma_predict |-> Gamma_tilde_c]
\* the arguments of the smoother call of line 286
SmootherArgs ==
    [F |-> F, NT |-> NT, N |-> Dim, x |-> x_tilde_c, Gamma |-> Gamma_tilde_c,
     x_predict |-> x_tilde_c_predict, Gamma_predict |-> Gamma_tilde_c_predict]

\* lines 284-286
Smoothing12 ==
    /\ cfg.driver = "state_iden_12" /\ pc = "smoothing"
    /\ IF cfg.smoothing
       THEN LET r == compute_fixed_interval_Kalman_smoother(SmootherArgs)
            IN  /\ smoother_calls' = Append(smoother_calls, SmootherArgs)
                /\ IF r.failed
                   THEN /\ pc' = "aborted"
                        /\ error' = LinAlgError(286)
                        /\ UNCHANGED <<x_tilde_c, Gamma_tilde_c>>
                   ELSE /\ x_tilde_c' = r.x
                        /\ Gamma_tilde_c' = r.Gamma
                        /\ pc' = "output"
                        /\ error' = error
       ELSE /\ pc' = "output"
            /\ UNCHANGED <<x_tilde_c, Gamma_tilde_c, smoother_calls, error>>
    /\ UNCHANGED <<cfg, setup, k, t, log, x_tilde_c_predict, Gamma_tilde_c_predict,
                   F, b, model, Jac, output>>
    /\ UNCHANGED vars06

\* lines 291-297 for one time index: the current lag of the stacked state
x_c_of(x_tc) == SetSub(SetSub(ZeroVec(N + Nc_eta), 0, SubVec(x_tc, 0, N)),
                       N, SubVec(x_tc, N, N + Nc_eta))
Gamma_c_of(G_tc) ==
    SetBlock(SetBlock(Zeros(N + Nc_eta, N + Nc_eta), 0, 0, SubMat(G_tc, 0, N, 0, N)),
             N, N, SubMat(G_tc, N, N + Nc_eta, N, N + Nc_eta))
\* lines 302-308 for one time index: the unconstrained state
x_of(x_c) == SetSub(SetSub(ZeroVec(N + N_eta), 0, SubVec(x_c, 0, N)),
                    N, MatVec(U_eta, SubVec(x_c, N, N + Nc_eta)))
Gamma_of(G_c) ==
    SetBlock(SetBlock(Zeros(N + N_eta, N + N_eta), 0, 0, SubMat(G_c, 0, N, 0, N)),
             N, N, MatMul(U_eta, MatMul(SubMat(G_c, N, N + Nc_eta, N, N + Nc_eta), UT_eta)))

\* lines 291-308
Output12 ==
    /\ cfg.driver = "state_iden_12" /\ pc = "output"
    /\ LET x_c == Tup([kk \in 1..NT |-> x_c_of(x_tilde_c[kk])], NT)
           Gamma_c == Tup([kk \in 1..NT |-> Gamma_c_of(Gamma_tilde_c[kk])], NT)
       IN  output' = [x_c |-> x_c, Gamma_c |-> Gamma_c,
                      x |-> Tup([kk \in 1..NT |-> x_of(x_c[kk])], NT),
                      Gamma |-> Tup([kk \in 1..NT |-> Gamma_of(Gamma_c[kk])], NT)]
    /\ pc' = "done"
    /\ UNCHANGED <<cfg, setup, k, t, error, log, x_tilde_c, Gamma_tilde_c,
                   x_tilde_c_predict, Gamma_tilde_c_predict, F, b, model, Jac,
                   smoother_calls>>
    /\ UNCHANGED vars06

Init == Init06 \/ Init12
Next ==
    \/ InitialOperator06 \/ Operator06 \/ Step06
    \/ Jacobians12 \/ Operator12 \/ Model12 \/ Covariance12 \/ Predict12 \/ Update12
    \/ Time12 \/ Smoothing12 \/ Output12
Spec == Init /\ [][Next]_vars

\* A sequential program keeps executing: while a statement is left to run,
\* the program counter eventually moves.  Running lists the positions that
\* have a statement; every action above is total at its position (its only
\* guard is the position), so Running is ENABLED Next.
PcValues ==
    {"initial_operator", "operator", "step", "jacobians", "model", "covariance",
     "predict", "update", "time", "smoothing", "output", "done", "aborted"}
Running ==
    \/ cfg.driver = "evol_06" /\ pc \in {"initial_operator", "operator", "step"}
    \/ cfg.driver = "state_iden_12"
         /\ pc \in {"jacobians", "operator", "model", "covariance", "predict", "update",
                    "time", "smoothing", "output"}
Advance == Running /\ pc' \in PcValues \ {pc}
LiveSpec == Init /\ [][Next]_vars /\ WF_pc(Advance)

\* ------------------------------------------------------------------------
\* evol_06.py with one degree of freedom and deposition only, over the
\* rationals: the order of the numbers matters here, so a number is a
\* fraction [n, d] in lowest terms with d > 0.
\* ------------------------------------------------------------------------
RECURSIVE GCD(_, _)
GCD(x, y) == IF y = 0 THEN x ELSE GCD(y, x % y)
IntAbs(a) == IF a < 0 THEN 0 - a ELSE a
QNorm(n, d) ==
    LET g == GCD(IntAbs(n), IntAbs(d))
        sgn == IF d < 0 THEN 0 - 1 ELSE 1
    IN  [n |-> sgn * (n \div g), d |-> sgn * (d \div g)]
QInt(i) == [n |-> i, d |-> 1]
QAdd(x, y) == QNorm(x.n * y.d + y.n * x.d, x.d * y.d)
QNeg(a) == [n |-> 0 - a.n, d |-> a.d]
QSub(x, y) == QAdd(x, QNeg(y))
QMul(x, y) == QNorm(x.n * y.n, x.d * y.d)
QInv(a) == QNorm(a.d, a.n)
QDiv(x, y) == QMul(x, QInv(y))
QLess(x, y) == x.n * y.d < y.n * x.d
QLeq(x, y) == x.n * y.d <= y.n * x.d
QAbs(a) == [n |-> IntAbs(a.n), d |-> a.d]
QHalf(a) == QDiv(a, QInt(2))

\* F.eval(alpha, t) of a model with the single process deposition, rate d
F_eval_deposition(alpha_star, t_star) == QNeg(QMul(cfg.d, alpha_star))
\* J_F.eval_d_alpha(alpha, t) of the same model
J_F_eval_d_alpha_deposition(alpha_star, t_star) == QNeg(cfg.d)

\* np.eye(N) - (dt / 2) * J_star and np.eye(N) + (dt / 2) * J_star for N = 1
ImplicitScalar(J_star) == QSub(QInt(1), QMul(QHalf(dt), J_star))
ExplicitScalar(J_star) == QAdd(QInt(1), QMul(QHalf(dt), J_star))
\* the bias F_star of line 114
F_star_scalar(alpha_star, t_star) ==
    QSub(F_eval_deposition(alpha_star, t_star),
         QMul(J_F_eval_d_alpha_deposition(alpha_star, t_star), alpha_star))
\* compute_evolution_operator with the explicit factor taken over the full step
compute_evolution_operator_scalar_full_step(alpha_star, t_star) ==
    LET J_star == J_F_eval_d_alpha_deposition(alpha_star, t_star)
        matrix_multiplier == QInv(ImplicitScalar(J_star))
    IN  [F_evolution |-> QMul(matrix_multiplier, QAdd(QInt(1), QMul(dt, J_star))),
         b_evolution |-> QMul(matrix_multiplier, QMul(dt, F_star_scalar(alpha_star, t_star)))]
\* compute_evolution_operator(alpha_star, t_star) for N = 1
compute_evolution_operator_scalar(alpha_star, t_star) ==
    LET J_star == J_F_eval_d_alpha_deposition(alpha_star, t_star)
        F_star == F_star_scalar(alpha_star, t_star)
        matrix_multiplier == QInv(ImplicitScalar(J_star))
    IN  [F_evolution |-> QMul(matrix_multiplier, ExplicitScalar(J_star)),
         b_evolution |-> QMul(matrix_multiplier, QMul(dt, F_star))]
\* np.linalg.inv of line 115 raises on a singular (here: zero) matrix
ScalarFails(alpha_star, t_star) ==
    ImplicitScalar(J_F_eval_d_alpha_deposition(alpha_star, t_star)).n = 0

\* deposition rates (per hour), time steps (hours) and initial coefficients
DecayRates == {QNorm(1, 2), QInt(1), QInt(3), QInt(0 - 2)}
DecaySteps == {QNorm(1, 2), QInt(1)}
DecayInitials == {QInt(0 - 2), QInt(1), QInt(3)}
ConfigsDecay ==
    [driver : {"evol_06_scalar"}, NT : NTs, dt : DecaySteps, d : DecayRates,
     alpha_0 : DecayInitials]

InitDecay ==
    /\ cfg \in ConfigsDecay
    /\ setup = <<>>
    /\ pc = "initial_operator"
    /\ k = 0
    /\ t = Tup([kk \in 1..NT |-> QInt(0)], NT)
    /\ error = NoError
    /\ log = <<>>
    /\ alpha = Put(Tup([kk \in 1..NT |-> QInt(0)], NT), 0, cfg.alpha_0)
    /\ F_evolution = QInt(0) /\ b_evolution = QInt(0)
    /\ x_tilde_c = <<>> /\ Gamma_tilde_c = <<>>
    /\ x_tilde_c_predict = <<>> /\ Gamma_tilde_c_predict = <<>>
    /\ F = <<>> /\ b = <<>> /\ model = <<>> /\ Jac = <<>>
    /\ smoother_calls = <<>> /\ output = <<>>

\* line 125
InitialOperatorDecay ==
    /\ cfg.driver = "evol_06_scalar" /\ pc = "initial_operator"
    /\ IF ScalarFails(At(alpha, 0), At(t, 0))
       THEN /\ pc' = "aborted"
            /\ error' = LinAlgError(115)
            /\ UNCHANGED <<F_evolution, b_evolution>>
       ELSE LET op == compute_evolution_operator_scalar(At(alpha, 0), At(t, 0))
            IN  /\ F_evolution' = op.F_evolution
                /\ b_evolution' = op.b_evolution
                /\ pc' = IF NT - 1 > 0 THEN "operator" ELSE "done"
                /\ error' = error
    /\ UNCHANGED <<cfg, setup, k, t, log, alpha>>
    /\ UNCHANGED vars12

\* lines 126-127
OperatorDecay ==
    /\ cfg.driver = "evol_06_scalar" /\ pc = "operator"
    /\ IF ScalarFails(At(alpha, k), At(t, k))
       THEN /\ pc' = "aborted"
            /\ error' = LinAlgError(115)
            /\ UNCHANGED <<F_evolution, b_evolution>>
       ELSE LET op == compute_evolution_operator_scalar(At(alpha, k), At(t, k))
            IN  /\ F_evolution' = op.F_evolution
                /\ b_evolution' = op.b_evolution
                /\ pc' = "step"
                /\ error' = error
    /\ UNCHANGED <<cfg, setup, k, t, log, alpha>>
    /\ UNCHANGED vars12

\* lines 128-129
StepDecay ==
    /\ cfg.driver = "evol_06_scalar" /\ pc = "step"
    /\ LET next == QAdd(QMul(F_evolution, At(alpha, k)), b_evolution)
       IN  /\ alpha' = Put(alpha, k + 1, next)
           /\ log' = Append(log, [op |-> "step", k |-> k, tk |-> At(t, k),
                                  xin |-> At(alpha, k), xout |-> next,
                                  F |-> F_evolution, b |-> b_evolution])
    /\ t' = Put(t, k + 1, QMul(QInt(k + 1), dt))
    /\ k' = k + 1
    /\ pc' = IF k + 1 < NT - 1 THEN "operator" ELSE "done"
    /\ UNCHANGED <<cfg, setup, error, F_evolution, b_evolution>>
    /\ UNCHANGED vars12

NextDecay == InitialOperatorDecay \/ OperatorDecay \/ StepDecay
SpecDecay == InitDecay /\ [][NextDecay]_vars

\* ------------------------------------------------------------------------
\* state_iden_12_main.py lines 72-77 for any AR order: the construction of
\* A_eta, one loop iteration per step.  cfg holds the order eta_p and the
\* coefficient matrices eta_A of the parameter file, setup.A_eta the matrix
\* under construction and k the loop variable i.
\* ------------------------------------------------------------------------
MaxOrder == 3
\* N_eta x N_eta coefficient matrices, none of them symmetric but the identity
CoefficientMatrices ==
    {Eye(N_eta),
     Mat([r \in 1..N_eta |-> [c \in 1..N_eta |-> (2 * r + c) % P]]),
     Mat([r \in 1..N_eta |-> [c \in 1..N_eta |-> IF r < c THEN 5 ELSE 0]]),
     Mat([r \in 1..N_eta |-> [c \in 1..N_eta |-> IF r > c THEN 3 ELSE r]])}
ConfigsVAR ==
    UNION {[driver : {"VAR_model"}, eta_p : {ord},
            eta_A : {Tup(f, ord) : f \in [1..ord -> CoefficientMatrices]}] :
           ord \in 1..MaxOrder}
\* lines 75-76: the body of the loop for loop variable i
\* an iteration that puts the identity on the diagonal block
A_eta_iteration_diagonal(A, eta_A, i) ==
    SetBlock(SetBlock(A, 0, i * N_eta, eta_A[i + 1]), i * N_eta, i * N_eta, Eye(N_eta))
A_eta_iteration(A, eta_A, i) ==
    SetBlock(SetBlock(A, 0, i * N_eta, eta_A[i + 1]), (i + 1) * N_eta, i * N_eta, Eye(N_eta))
\* line 77
A_eta_last_element(A, eta_A, ord) == SetBlock(A, 0, (ord - 1) * N_eta, eta_A[ord])

InitVAR ==
    /\ cfg \in ConfigsVAR
    /\ setup = [A_eta |-> <<>>]
    /\ pc = "allocate"
    /\ k = 0
    /\ t = <<>> /\ error = NoError /\ log = <<>>
    /\ alpha = <<>> /\ F_evolution = <<>> /\ b_evolution = <<>>
    /\ x_tilde_c = <<>> /\ Gamma_tilde_c = <<>>
    /\ x_tilde_c_predict = <<>> /\ Gamma_tilde_c_predict = <<>>
    /\ F = <<>> /\ b = <<>> /\ model = <<>> /\ Jac = <<>>
    /\ smoother_calls = <<>> /\ output = <<>>

\* line 73
AllocateVAR ==
    /\ cfg.driver = "VAR_model" /\ pc = "allocate"
    /\ setup' = [setup EXCEPT !.A_eta = Zeros(cfg.eta_p * N_eta, cfg.eta_p * N_eta)]
    /\ k' = 0
    /\ pc' = IF 0 < cfg.eta_p - 1 THEN "loop" ELSE "last_element"
    /\ UNCHANGED <<cfg, t, error, log, alpha, F_evolution, b_evolution>>
    /\ UNCHANGED vars12
\* lines 74-76
IterationVAR ==
    /\ cfg.driver = "VAR_model" /\ pc = "loop"
    /\ setup' = [setup EXCEPT !.A_eta = A_eta_iteration(setup.A_eta, cfg.eta_A, k)]
    /\ log' = Append(log, [op |-> "iteration", k |-> k])
    /\ k' = k + 1
    /\ pc' = IF k + 1 < cfg.eta_p - 1 THEN "loop" ELSE "last_element"
    /\ UNCHANGED <<cfg, t, error, alpha, F_evolution, b_evolution>>
    /\ UNCHANGED vars12
\* line 77
LastElementVAR ==
    /\ cfg.driver = "VAR_model" /\ pc = "last_element"
    /\ setup' = [setup EXCEPT !.A_eta =
                    A_eta_last_element(setup.A_eta, cfg.eta_A, cfg.eta_p)]
    /\ pc' = "done"
    /\ UNCHANGED <<cfg, k, t, error, log, alpha, F_evolution, b_evolution>>
    /\ UNCHANGED vars12

NextVAR == AllocateVAR \/ IterationVAR \/ LastElementVAR
SpecVAR == InitVAR /\ [][NextVAR]_vars
\* ------------------------------------------------------------------------
\* History of a run
\* ------------------------------------------------------------------------
Entries(op) == {i \in 1..Len(log) : log[i].op = op}
\* the entries of operation op at loop index kk
EntriesAt(op, kk) == {i \in Entries(op) : log[i].k = kk}
\* what the forward pass stored as filtered estimate at index kk
ForwardFiltered(kk) ==
    IF kk = 0
    THEN {[x |-> setup.x_tilde_c_prior, Gamma |-> setup.Gamma_tilde_c_prior]}
    ELSE {log[i].out : i \in EntriesAt("update", kk - 1)}
Forward12 == cfg.driver = "state_iden_12" /\ smoother_calls = <<>>

\* ------------------------------------------------------------------------
\* C1: Crank-Nicolson step.  With J the Jacobian at (x_k, t_k) and
\* bias = eval(x_k, t_k) - J x_k [- J_eta eta_k], every transition used by a
\* step satisfies (I - (dt/2) J) F_evolution = I + (dt/2) J and
\* (I - (dt/2) J) b_evolution = dt bias, and the next state satisfies
\* (I - (dt/2) J) x_{k+1} = (I + (dt/2) J) x_k + dt bias; in the joint case
\* this is the alpha block of F_evolution and b_evolution.
\* ------------------------------------------------------------------------
CrankNicolson06(e) ==
    LET J == J_F_eval_d_alpha(e.xin, e.tk)
        bias == VecSub(F_eval(e.xin, e.tk), MatVec(J, e.xin))
    IN  /\ ~Singular(ImplicitMatrix(J))
        /\ MatMul(ImplicitMatrix(J), e.F) = ExplicitMatrix(J)
        /\ MatVec(ImplicitMatrix(J), e.b) = VecScale(dt, bias)
        /\ MatVec(ImplicitMatrix(J), e.xout)
               = VecAdd(MatVec(ExplicitMatrix(J), e.xin), VecScale(dt, bias))
CrankNicolson12(e) ==
    LET x_star == x_star_of(e.args.x)
        J == dF_alpha_d_alpha(x_star, e.tk)
        J_eta == dF_alpha_d_eta(x_star, e.tk)
        bias == VecSub(VecSub(F_alpha_eval(x_star, e.tk), MatVec(J, SubVec(x_star, 0, N))),
                       MatVec(J_eta, SubVec(x_star, N, N + N_eta)))
    IN  /\ ~Singular(ImplicitMatrix(J))
        /\ MatMul(ImplicitMatrix(J), SubMat(e.model.F, 0, N, 0, N)) = ExplicitMatrix(J)
        /\ MatVec(ImplicitMatrix(J), SubVec(e.model.additive_evolution_vector, 0, N))
               = VecScale(dt, bias)
C1_CrankNicolson ==
    /\ \A i \in Entries("step") : CrankNicolson06(log[i])
    /\ \A i \in Entries("predict") : CrankNicolson12(log[i])
\* two steps taken, the second with a non-zero additive vector and a Jacobian
\* that depends on the state (coagulation)
C1_Witness ==
    /\ cfg.driver = "evol_06" /\ pc = "done" /\ Len(log) >= 2
    /\ cfg.coag # 0
    /\ log[2].b # ZeroVec(N)
    /\ log[2].F # log[1].F

\* ------------------------------------------------------------------------
\* C2: in both drivers the transition that produces index k+1 is the one
\* computed from the state stored at index k and the time t[k] = k dt.
\* ------------------------------------------------------------------------
TransitionFrom06(e) ==
    /\ e.xin = At(alpha, e.k)
    /\ e.xout = At(alpha, e.k + 1)
    /\ ~Evol06Fails(At(alpha, e.k), FMul(e.k, dt))
    /\ LET op == compute_evolution_operator_06(At(alpha, e.k), FMul(e.k, dt))
       IN  e.F = op.F_evolution /\ e.b = op.b_evolution
TransitionFrom12(e) ==
    /\ ForwardFiltered(e.k) # {}
    /\ \A f \in ForwardFiltered(e.k) :
          LET J == compute_evolution_operator_Jacobians(f.x, FMul(e.k, dt))
          IN  /\ ~Singular(ImplicitMatrix(J.J_alpha_star))
              /\ LET op == compute_evolution_operator(f.x, FMul(e.k, dt),
                                                      J.J_alpha_star, J.J_eta_star)
                 IN  /\ e.model.F = op.F_evolution
                     /\ e.model.additive_evolution_vector = op.b_evolution
C2_TransitionFromCurrentEstimate ==
    /\ \A i \in Entries("step") : TransitionFrom06(log[i])
    /\ \A i \in Entries("predict") : TransitionFrom12(log[i])
\* the second predict of a filter run whose first update moved the estimate
\* away from the prediction
C2_Witness ==
    /\ cfg.driver = "state_iden_12" /\ pc = "update" /\ k = 1
    /\ At(x_tilde_c, 1) # At(x_tilde_c_predict, 1)
    /\ At(x_tilde_c, 1) # At(x_tilde_c, 0)
    /\ At(F, 1) # At(F, 0)

\* ------------------------------------------------------------------------
\* C3: the estimator is a strictly ordered predict/update recursion: the
\* history is predict 0, update 0, predict 1, update 1, ...; predict k
\* consumes the filtered pair of index k and writes the predicted pair of
\* index k+1; update k consumes exactly that predicted pair and writes the
\* filtered pair of index k+1.
\* ------------------------------------------------------------------------
C3_PredictUpdateOrder ==
    cfg.driver = "state_iden_12" =>
      /\ \A i \in 1..Len(log) :
            /\ log[i].op = (IF i % 2 = 1 THEN "predict" ELSE "update")
            /\ log[i].k = (i - 1) \div 2
      /\ \A i \in Entries("predict") :
            /\ [x |-> log[i].args.x, Gamma |-> log[i].args.Gamma]
                   \in ForwardFiltered(log[i].k)
            /\ At(x_tilde_c_predict, log[i].k + 1) = log[i].out.x
            /\ At(Gamma_tilde_c_predict, log[i].k + 1) = log[i].out.Gamma
      /\ \A i \in Entries("update") :
            /\ log[i].args.x = log[i - 1].out.x
            /\ log[i].args.Gamma = log[i - 1].out.Gamma
            /\ Forward12 => /\ At(x_tilde_c, log[i].k + 1) = log[i].out.x
                            /\ At(Gamma_tilde_c, log[i].k + 1) = log[i].out.Gamma
      /\ pc \in {"jacobians", "operator", "model", "covariance", "predict"}
            => Len(log) = 2 * k
      /\ pc = "update" => Len(log) = 2 * k + 1
      /\ pc = "time" => Len(log) = 2 * k + 2
\* the second update has run and differs from the prediction it consumed
C3_Witness ==
    /\ cfg.driver = "state_iden_12" /\ pc = "time" /\ k = 1
    /\ Len(log) = 4
    /\ log[4].out.x # log[4].args.x
    /\ log[3].args.x = log[2].out.x

\* ------------------------------------------------------------------------
\* C4: at every forward step k the process-noise covariance handed to
\* predict has as alpha block the configured Gamma_alpha_w plus the
\* parameter-induced term of step k's Jacobians only; nothing of steps
\* 0..k-1 is carried into step k.
\* ------------------------------------------------------------------------
FreshAlphaNoise(e) ==
    MatAdd(Gamma_alpha_w_of(cfg),
           Gamma_induced(setup.Gamma_tilde_c_w, e.Jac.J_alpha_star, e.Jac.J_eta_star))
C4_FreshProcessNoise ==
    \A i \in Entries("predict") :
        SubMat(log[i].model.Gamma_w, 0, N, 0, N) = FreshAlphaNoise(log[i])
\* what line 276 hands to predict: the alpha block of the previous step plus
\* the induced term of this step
C4_AccumulatedProcessNoise ==
    \A i \in Entries("predict") :
        LET e == log[i]
            before == IF e.k = 0 THEN Gamma_alpha_w_of(cfg)
                      ELSE SubMat(log[i - 2].model.Gamma_w, 0, N, 0, N)
        IN  SubMat(e.model.Gamma_w, 0, N, 0, N)
                = MatAdd(before, Gamma_induced(setup.Gamma_tilde_c_w,
                                               e.Jac.J_alpha_star, e.Jac.J_eta_star))
\* the first step is fresh; the second carries the first step's induced term
C4_FirstStepFresh ==
    \A i \in EntriesAt("predict", 0) :
        SubMat(log[i].model.Gamma_w, 0, N, 0, N) = FreshAlphaNoise(log[i])

\* ------------------------------------------------------------------------
\* C5 as stated: in the trajectory x_tilde_c, for every written index k >= 1
\* and every lag i in 1..eta_p-1, block i of the parameter stack at k equals
\* block i-1 at k-1.
\* ------------------------------------------------------------------------
EtaBlock(x, i) == SubVec(x, N + i * Nc_eta, N + (i + 1) * Nc_eta)
Written(kk) == EntriesAt("update", kk - 1) # {}
ShiftRows(i) ==
    SetBlock(Zeros(Nc_eta, Dim), 0, N + (i - 1) * Nc_eta, Eye(Nc_eta))
EtaRange(A) == SubMat(A, N, Dim, N, Dim)
Reduce(G) == MatMul(UT_eta_p, MatMul(G, U_eta_p))
Expand(G_c) == MatMul(U_eta, MatMul(G_c, UT_eta))
StackedPriorMean ==
    Vec([i \in 1..(eta_p * N_eta) |-> cfg.eta_prior[((i - 1) % N_eta) + 1]])
StackedPriorCovariance ==
    Mat([i \in 1..(eta_p * N_eta) |-> [j \in 1..(eta_p * N_eta) |->
        IF (i - 1) \div N_eta # (j - 1) \div N_eta THEN 0
        ELSE IF i = j THEN Sq(cfg.sigma_eta_prior)
        ELSE FMul(FDiv(1, 1000), Sq(cfg.sigma_eta_prior))]])
StackedNoiseCovariance ==
    Mat([i \in 1..(eta_p * N_eta) |-> [j \in 1..(eta_p * N_eta) |->
        IF i > N_eta \/ j > N_eta THEN 0
        ELSE IF i = j THEN Sq(cfg.sigma_eta_w)
        ELSE FMul(cfg.sigma_eta_w_correlation, Sq(cfg.sigma_eta_w))]])
ExpandedState(x_tc) ==
    SetSub(SetSub(ZeroVec(N + N_eta), 0, SubVec(x_tc, 0, N)),
           N, MatVec(U_eta, EtaBlock(x_tc, 0)))
C6_ConsistentTransform ==
    cfg.driver = "state_iden_12" =>
      \* prior (lines 223-239)
      /\ SubVec(setup.x_tilde_c_prior, N, Dim) = MatVec(UT_eta_p, StackedPriorMean)
      /\ EtaRange(setup.Gamma_tilde_c_prior) = Reduce(StackedPriorCovariance)
      \* process noise (lines 198-208)
      /\ EtaRange(setup.Gamma_tilde_c_w) = Reduce(StackedNoiseCovariance)
      \* linearisation and noise transform (lines 101-164)
      /\ \A i \in Entries("predict") :
            LET e == log[i]
                xs == ExpandedState(e.args.x)
                M_star == Inv(ImplicitMatrix(e.Jac.J_alpha_star))
                G_eta == Expand(SubMat(setup.Gamma_tilde_c_w, N, N + Nc_eta, N, N + Nc_eta))
                before == IF e.k = 0 THEN SubMat(setup.Gamma_tilde_c_w, 0, N, 0, N)
                          ELSE SubMat(log[i - 2].model.Gamma_w, 0, N, 0, N)
            IN  /\ e.Jac.J_alpha_star = dF_alpha_d_alpha(xs, e.tk)
                /\ e.Jac.J_eta_star = dF_alpha_d_eta(xs, e.tk)
                /\ SubMat(e.model.Gamma_w, 0, N, 0, N)
                      = MatAdd(before,
                               Scale(FDiv(Sq(dt), 4),
                                     MatMul(M_star, MatMul(MatMul(e.Jac.J_eta_star,
                                         MatMul(G_eta, Transpose(e.Jac.J_eta_star))),
                                         Transpose(M_star)))))
                /\ EtaRange(e.model.Gamma_w) = Reduce(StackedNoiseCovariance)
      \* final output (lines 302-308)
      /\ pc = "done" =>
            \A kk \in 0..(NT - 1) :
                /\ SubVec(At(output.x, kk), N, N + N_eta)
                      = MatVec(U_eta, EtaBlock(At(x_tilde_c, kk), 0))
                /\ SubMat(At(output.Gamma, kk), N, N + N_eta, N, N + N_eta)
                      = Expand(SubMat(At(Gamma_tilde_c, kk), N, N + Nc_eta, N, N + Nc_eta))
\* a finished run of three time points whose noise covariance is changed by
\* the reduction and whose final parameter covariance is not a multiple of
\* the reduced one
C6_Witness ==
    /\ cfg.driver = "state_iden_12" /\ pc = "done" /\ NT = 3
    /\ EtaRange(setup.Gamma_tilde_c_w)
          # SubMat(StackedNoiseCovariance, 0, eta_p * Nc_eta, 0, eta_p * Nc_eta)
    /\ SubVec(At(output.x, 2), N, N + N_eta) # ZeroVec(N_eta)
    /\ At(x_tilde_c, 2) # At(x_tilde_c_predict, 2)

\* ------------------------------------------------------------------------
\* C7 as stated: a failure of a matrix operation at forward step k aborts
\* the run with no predict or update of step k or of a later step executed,
\* no estimate of an index > k written, and the smoother not run.
\* ------------------------------------------------------------------------
Aborted12 == cfg.driver = "state_iden_12" /\ pc = "aborted"
ForwardFailure == Aborted12 /\ error.line \in {133, 161, 278}
Unwritten(from) ==
    \A j \in from..(NT - 1) :
        /\ At(x_tilde_c, j) = ZeroVec(Dim) /\ At(Gamma_tilde_c, j) = Zeros(Dim, Dim)
PredictUnwritten(from) ==
    \A j \in from..(NT - 1) :
        /\ At(x_tilde_c_predict, j) = ZeroVec(Dim)
        /\ At(Gamma_tilde_c_predict, j) = Zeros(Dim, Dim)
NothingAfterwards == smoother_calls = <<>> /\ output = <<>>
C7_AbortBeforeStep ==
    ForwardFailure =>
        /\ \A i \in 1..Len(log) : log[i].k < k
        /\ Unwritten(k + 1) /\ PredictUnwritten(k + 1)
        /\ NothingAfterwards
\* C7 amended: a failure of a matrix operation at forward step k aborts the
\* run at that operation.  If the linearisation or noise-covariance inverse
\* fails, neither predict nor update of step k has run and no estimate of an
\* index > k is written.  If the Kalman update fails, predict of step k has
\* already run and the predicted pair of index k+1 is written, but no filtered
\* estimate of an index > k and no predicted estimate of an index > k+1 is.
\* In both cases no later step runs and the smoother is not run; and a run
\* that is not aborted has skipped no step: every earlier step executed both
\* its predict and its update on invertible matrices.
StepsCompleted ==
    IF pc \in {"jacobians", "operator", "model", "covariance", "predict"} THEN 2 * k
    ELSE IF pc = "update" THEN 2 * k + 1
    ELSE IF pc = "time" THEN 2 * k + 2
    ELSE 2 * (NT - 1)
C7_AbortAtFailingOperation ==
    cfg.driver = "state_iden_12" =>
      /\ (error # NoError) <=> (pc = "aborted")
      /\ (Aborted12 /\ error.line \in {133, 161}) =>
            /\ Len(log) = 2 * k
            /\ \A i \in 1..Len(log) : log[i].k < k
            /\ Singular(ImplicitMatrix(Jac.J_alpha_star))
            /\ Unwritten(k + 1) /\ PredictUnwritten(k + 1)
            /\ NothingAfterwards
      /\ (Aborted12 /\ error.line = 278) =>
            /\ Len(log) = 2 * k + 1
            /\ log[Len(log)].op = "predict" /\ log[Len(log)].k = k
            /\ \A i \in 1..(Len(log) - 1) : log[i].k < k
            /\ At(x_tilde_c_predict, k + 1) = log[Len(log)].out.x
            /\ At(Gamma_tilde_c_predict, k + 1) = log[Len(log)].out.Gamma
            /\ KF_update_fails(model, At(Gamma_tilde_c_predict, k + 1), k)
            /\ Unwritten(k + 1) /\ PredictUnwritten(k + 2)
            /\ NothingAfterwards
      /\ pc # "aborted" => Len(log) = StepsCompleted
      /\ \A i \in Entries("predict") : ~Singular(ImplicitMatrix(log[i].Jac.J_alpha_star))
      /\ \A i \in Entries("update") :
            ~KF_update_fails(log[i].model, log[i].args.Gamma, log[i].args.k)
\* a run aborted by its Kalman update after predict of the same step had
\* written a non-zero predicted covariance
C7_Witness ==
    /\ Aborted12 /\ error.line = 278
    /\ Len(log) = 2 * k + 1
    /\ At(Gamma_tilde_c_predict, k + 1) # Zeros(Dim, Dim)
    /\ NT = 3

\* ------------------------------------------------------------------------
\* C8: when the run aborts on a failed matrix operation, the error outcome
\* identifies the time step k and the matrix operation that failed.
\* ------------------------------------------------------------------------
\* the operation a traceback line stands for
ErrorOperation(e) ==
    IF e.line = 133 THEN "linearization inverse"
    ELSE IF e.line = 161 THEN "noise-covariance inverse"
    ELSE IF e.line = 278 THEN "Kalman update"
    ELSE "other"
\* the time step an error names, if it names one
ErrorStep(e) == IF "step" \in DOMAIN e THEN {e.step} ELSE {}
C8_ErrorIdentifiesStepAndOperation ==
    ForwardFailure =>
        /\ ErrorOperation(error) # "other"
        /\ ErrorStep(error) = {k}
\* what the code does give: the raising line, and through it the operation
C8_ErrorIdentifiesOperation ==
    ForwardFailure => ErrorOperation(error) # "other"

\* ------------------------------------------------------------------------
\* C9: the smoother runs at most once, only when smoothing is enabled, and
\* only after all NT-1 predict/update pairs have completed; it receives the
\* complete filtered and predicted trajectories and the per-step transitions
\* of that forward pass.
\* ------------------------------------------------------------------------
ReceivesForwardPass(a) ==
    /\ a.NT = NT /\ a.N = Dim
    /\ Len(a.F) = NT /\ Len(a.x) = NT /\ Len(a.Gamma) = NT
    /\ Len(a.x_predict) = NT /\ Len(a.Gamma_predict) = NT
    /\ At(a.x, 0) = setup.x_tilde_c_prior
    /\ At(a.Gamma, 0) = setup.Gamma_tilde_c_prior
    /\ \A j \in 0..(NT - 2) :
          LET pr == log[2 * j + 1]
              up == log[2 * j + 2]
          IN  /\ pr.op = "predict" /\ pr.k = j /\ up.op = "update" /\ up.k = j
              /\ At(a.F, j) = pr.model.F
              /\ At(a.x_predict, j + 1) = pr.out.x
              /\ At(a.Gamma_predict, j + 1) = pr.out.Gamma
              /\ At(a.x, j + 1) = up.out.x
              /\ At(a.Gamma, j + 1) = up.out.Gamma
C9_SmootherOnceAfterForwardPass ==
    cfg.driver = "state_iden_12" =>
      /\ Len(smoother_calls) <= 1
      /\ smoother_calls # <<>> =>
            /\ cfg.smoothing
            /\ pc \in {"output", "done", "aborted"}
            /\ k = NT - 1
            /\ Len(log) = 2 * (NT - 1)
            /\ ReceivesForwardPass(smoother_calls[1])
      /\ ~cfg.smoothing => smoother_calls = <<>>
\* the smoother has run over a forward pass of two steps and changed an
\* earlier filtered estimate
C9_Witness ==
    /\ cfg.driver = "state_iden_12" /\ pc = "output" /\ NT = 3
    /\ Len(smoother_calls) = 1
    /\ At(x_tilde_c, 1) # At(smoother_calls[1].x, 1)
    /\ At(smoother_calls[1].F, 0) # At(smoother_calls[1].F, 1)

\* ------------------------------------------------------------------------
\* C10 as stated: with smoothing disabled, no transition of an earlier step
\* is still held after the forward pass.
\* ------------------------------------------------------------------------
Held(j) ==
    /\ EntriesAt("predict", j) # {}
    /\ \A i \in EntriesAt("predict", j) :
          /\ At(F, j) = log[i].model.F
          /\ At(b, j) = log[i].model.additive_evolution_vector
ForwardPassOver == cfg.driver = "state_iden_12" /\ pc \in {"smoothing", "output", "done"}
ForwardPcs == {"jacobians", "operator", "model", "covariance", "predict", "update", "time"}
Trajectories == <<x_tilde_c, Gamma_tilde_c, x_tilde_c_predict, Gamma_tilde_c_predict>>
OnlyNextIndexWritten ==
    \A j \in 1..NT :
        j # k + 2 =>
            /\ x_tilde_c'[j] = x_tilde_c[j]
            /\ Gamma_tilde_c'[j] = Gamma_tilde_c[j]
            /\ x_tilde_c_predict'[j] = x_tilde_c_predict[j]
            /\ Gamma_tilde_c_predict'[j] = Gamma_tilde_c_predict[j]
ForwardStepFrame ==
    (cfg.driver = "state_iden_12" /\ pc \in ForwardPcs) =>
        /\ OnlyNextIndexWritten
        /\ pc \in {"jacobians", "operator", "model", "covariance", "time"}
              => UNCHANGED Trajectories
        /\ pc = "predict" => UNCHANGED <<x_tilde_c, Gamma_tilde_c>>
        /\ pc = "update" => UNCHANGED <<x_tilde_c_predict, Gamma_tilde_c_predict>>
C11_HistoryNotMutated == [][ForwardStepFrame]_vars
\* the second step has written index 2 and index 1 still holds what the
\* first step wrote
C11_Witness ==
    /\ cfg.driver = "state_iden_12" /\ pc = "time" /\ k = 1
    /\ At(x_tilde_c, 1) = log[2].out.x /\ At(x_tilde_c_predict, 1) = log[1].out.x
    /\ At(x_tilde_c, 2) = log[4].out.x
    /\ At(x_tilde_c, 2) # At(x_tilde_c, 1)
    /\ At(x_tilde_c, 1) # At(x_tilde_c, 0)

\* ------------------------------------------------------------------------
\* C12: before the first forward step the filtered and the predicted mean of
\* index 0 both equal the prior mean and the filtered and predicted
\* covariance of index 0 both equal the prior covariance, with the alpha
\* block from the alpha prior and each of the eta_p lag blocks from the
\* reduced eta prior; the forward pass never overwrites index 0.
\* ------------------------------------------------------------------------
PriorMean ==
    Vec([i \in 1..Dim |->
        IF i <= N THEN cfg.alpha_prior[i]
        ELSE MatVec(UT_eta, cfg.eta_prior)[((i - N - 1) % Nc_eta) + 1]])
Gamma_alpha_prior ==
    compute_correlated_covariance_matrix(N, cfg.sigma_alpha_prior, FDiv(1, 1000))
Gamma_eta_prior ==
    compute_correlated_covariance_matrix(N_eta, cfg.sigma_eta_prior, FDiv(1, 1000))
PriorCovariance ==
    LET G_c == MatMul(UT_eta, MatMul(Gamma_eta_prior, U_eta))
    IN  Mat([i \in 1..Dim |-> [j \in 1..Dim |->
            IF i <= N /\ j <= N THEN Gamma_alpha_prior[i][j]
            ELSE IF i <= N \/ j <= N THEN 0
            ELSE IF (i - N - 1) \div Nc_eta # (j - N - 1) \div Nc_eta THEN 0
            ELSE G_c[((i - N - 1) % Nc_eta) + 1][((j - N - 1) % Nc_eta) + 1]]])
C12_InitialState ==
    cfg.driver = "state_iden_12" =>
      /\ At(x_tilde_c_predict, 0) = PriorMean
      /\ At(Gamma_tilde_c_predict, 0) = PriorCovariance
      /\ Forward12 => /\ At(x_tilde_c, 0) = PriorMean
                      /\ At(Gamma_tilde_c, 0) = PriorCovariance
      /\ \A i \in Entries("predict") :
            log[i].k = 0 => log[i].args.x = PriorMean /\ log[i].args.Gamma = PriorCovariance
\* a forward pass of two steps is over and index 0 still holds a prior with
\* non-zero lag blocks that the later estimates have moved away from
C12_Witness ==
    /\ cfg.driver = "state_iden_12" /\ pc = "smoothing" /\ NT = 3
    /\ At(x_tilde_c, 0) = PriorMean
    /\ \A i \in 0..(eta_p - 1) : EtaBlock(PriorMean, i) # ZeroVec(Nc_eta)
    /\ At(x_tilde_c, 1) # PriorMean /\ At(x_tilde_c, 2) # PriorMean

\* ------------------------------------------------------------------------
\* C13: continuity-reduction round trip on the lag-stacked representation:
\* with UT_eta U_eta = I for the single-lag pair, the block-diagonal
\* matrices of eta_p lags satisfy UT_eta_p (U_eta_p v) = v for every stacked
\* reduced vector v, UT_eta_p is the transpose of U_eta_p, and
\* U_eta_p UT_eta_p is idempotent.
\* ------------------------------------------------------------------------
StackedReduced == {Tup(f, eta_p * Nc_eta) : f \in [1..(eta_p * Nc_eta) -> Field]}
StackedEta(x_tc) == SubVec(x_tc, N, Dim)
C13_StackedRoundTrip ==
    LET Proj == MatMul(U_eta_p, UT_eta_p)
    IN  MatMul(UT_eta, U_eta) = Eye(Nc_eta) =>
          \* the matrices do not depend on the state of the run: every reduced
          \* vector is tried in the states before the first step
          /\ log = <<>> =>
                \A v \in StackedReduced : MatVec(UT_eta_p, MatVec(U_eta_p, v)) = v
          /\ cfg.driver = "state_iden_12" =>
                \A j \in 0..(NT - 1) :
                    MatVec(UT_eta_p, MatVec(U_eta_p, StackedEta(At(x_tilde_c, j))))
                        = StackedEta(At(x_tilde_c, j))
          /\ UT_eta_p = Transpose(U_eta_p)
          /\ MatMul(Proj, Proj) = Proj
\* the single-lag pair is a left inverse, the stacked projection is not the
\* identity, and an estimate whose lag blocks differ is expanded to a
\* non-zero stacked parameter vector
C13_Witness ==
    /\ MatMul(UT_eta, U_eta) = Eye(Nc_eta)
    /\ MatMul(U_eta_p, UT_eta_p) # Eye(eta_p * N_eta)
    /\ cfg.driver = "state_iden_12" /\ pc = "time" /\ k = 1
    /\ EtaBlock(At(x_tilde_c, 2), 0) # EtaBlock(At(x_tilde_c, 2), 1)
    /\ MatVec(U_eta_p, StackedEta(At(x_tilde_c, 2))) # ZeroVec(eta_p * N_eta)

\* ------------------------------------------------------------------------
\* C14: pure deposition with one degree of freedom (eval(alpha) = -d alpha):
\* the bias is zero and every step satisfies
\* (1 + d dt/2) alpha_{k+1} = (1 - d dt/2) alpha_k, so for 0 < d dt < 2 the
\* coefficient keeps its sign and strictly decreases in magnitude, and each
\* step follows alpha_k exp(-d dt) to within the Crank-Nicolson truncation
\* error, here |alpha_k| (d dt)^3 / 6.
\* ------------------------------------------------------------------------
DecayZ == QMul(cfg.d, dt)
StableStep == QLess(QInt(0), DecayZ) /\ QLess(DecayZ, QInt(2))
QSign(a) == IF a.n > 0 THEN 1 ELSE IF a.n < 0 THEN 0 - 1 ELSE 0
QCube(a) == QMul(a, QMul(a, a))
\* partial sums of the exponential series of exp(-z): for 0 < z < 2,
\* ExpLower(z) <= exp(-z) <= ExpUpper(z)
ExpLower(z) ==
    QSub(QAdd(QSub(QInt(1), z), QHalf(QMul(z, z))), QDiv(QCube(z), QInt(6)))
ExpUpper(z) == QAdd(ExpLower(z), QDiv(QMul(z, QCube(z)), QInt(24)))
TruncationBound(z) == QDiv(QCube(z), QInt(6))
DecayStep(e) ==
    /\ e.b = QInt(0)
    /\ F_star_scalar(e.xin, e.tk) = QInt(0)
    /\ QMul(QAdd(QInt(1), QHalf(DecayZ)), e.xout)
          = QMul(QSub(QInt(1), QHalf(DecayZ)), e.xin)
    /\ e.tk = QMul(QInt(e.k), dt)
    /\ At(alpha, e.k) = e.xin /\ At(alpha, e.k + 1) = e.xout
    /\ StableStep =>
          /\ QSign(e.xout) = QSign(e.xin)
          /\ e.xin.n # 0 => QLess(QAbs(e.xout), QAbs(e.xin))
          \* |F - exp(-z)| <= z^3 / 6, hence |xout - xin exp(-z)| <= |xin| z^3 / 6
          /\ QLeq(QSub(ExpUpper(DecayZ), TruncationBound(DecayZ)), e.F)
          /\ QLeq(e.F, QAdd(ExpLower(DecayZ), TruncationBound(DecayZ)))
C14_PureDepositionDecay ==
    cfg.driver = "evol_06_scalar" => \A i \in 1..Len(log) : DecayStep(log[i])
\* two stable steps of a non-zero coefficient
C14_Witness ==
    /\ cfg.driver = "evol_06_scalar" /\ pc = "done" /\ NT = 3 /\ StableStep
    /\ Len(log) = 2
    /\ QLess(QAbs(At(alpha, 2)), QAbs(At(alpha, 1)))
    /\ QLess(QAbs(At(alpha, 1)), QAbs(At(alpha, 0)))
    /\ QSign(At(alpha, 2)) = QSign(At(alpha, 0)) /\ QSign(At(alpha, 0)) = 0 - 1

\* ------------------------------------------------------------------------
\* C15: the run is a fixed finite batch: for any NT >= 1 and absent a
\* failure the forward loop performs exactly NT-1 steps, one per
\* k = 0..NT-2, and then terminates; on termination every index 1..NT-1 of
\* the state trajectory has been written exactly once and t[k] = k dt for
\* every k in 0..NT-1.
\* ------------------------------------------------------------------------
Terminated == pc \in {"done", "aborted"}
LoopOver06 == cfg.driver = "evol_06" /\ pc = "done"
BatchComplete06 ==
    /\ k = NT - 1
    /\ Len(log) = NT - 1
    /\ \A j \in 0..(NT - 2) :
          /\ log[j + 1].op = "step" /\ log[j + 1].k = j
          /\ At(alpha, j + 1) = log[j + 1].xout
    /\ \A j \in 0..(NT - 1) : At(t, j) = FMul(j, dt)
BatchComplete12 ==
    /\ k = NT - 1
    /\ Len(log) = 2 * (NT - 1)
    /\ \A j \in 0..(NT - 2) :
          /\ log[2 * j + 1].op = "predict" /\ log[2 * j + 1].k = j
          /\ log[2 * j + 2].op = "update" /\ log[2 * j + 2].k = j
          /\ At(x_tilde_c_predict, j + 1) = log[2 * j + 1].out.x
          /\ Forward12 => At(x_tilde_c, j + 1) = log[2 * j + 2].out.x
    /\ \A j \in 0..(NT - 1) : At(t, j) = FMul(j, dt)
FixedBatch ==
    /\ LoopOver06 => BatchComplete06
    /\ ForwardPassOver => BatchComplete12
    /\ cfg.driver = "evol_06" => Len(log) <= NT - 1
    /\ cfg.driver = "state_iden_12" => Len(log) <= 2 * (NT - 1)
    /\ k <= NT - 1
C15_FiniteBatch == [](FixedBatch) /\ <>(Terminated)
\* a terminated run of three time points that took its two steps
C15_Witness ==
    /\ LoopOver06 /\ NT = 3 /\ Len(log) = 2
    /\ log[1].k = 0 /\ log[2].k = 1
    /\ At(t, 2) = FMul(2, dt) /\ At(t, 2) # At(t, 1)
    /\ At(alpha, 2) # At(alpha, 1)

\* ------------------------------------------------------------------------
\* C16: joint transition, alpha rows.  For every transition the filter
\* predicts with, M = (I - (dt/2) J_alpha)^-1 is built from the alpha-block
\* Jacobian alone, the alpha/alpha block of F_evolution is
\* M (I + (dt/2) J_alpha) and the alpha/parameter block is
\* M (dt/2) J_eta B_eta U_eta_p, where B_eta = [I + A_1, A_2, ..., A_p] is
\* the top block-row of A_eta plus the selector of the current lag, so that
\* B_eta applied to the lag stack is eta_k plus the AR-predicted eta_{k+1}.
\* ------------------------------------------------------------------------
\* [I, 0, ..., 0]: picks the current lag out of the unreduced stack
CurrentLagSelector == SetBlock(Zeros(N_eta, eta_p * N_eta), 0, 0, Eye(N_eta))
TopBlockRow(A) == SubMat(A, 0, N_eta, 0, eta_p * N_eta)
LagBlock(B, j) == SubMat(B, 0, N_eta, j * N_eta, (j + 1) * N_eta)
CoefficientRow ==
    /\ B_eta = MatAdd(TopBlockRow(A_eta), CurrentLagSelector)
    /\ LagBlock(B_eta, 0) = MatAdd(Eye(N_eta), cfg.eta_A[1])
    /\ \A j \in 1..(eta_p - 1) : LagBlock(B_eta, j) = cfg.eta_A[j + 1]
AlphaRows(e) ==
    LET x_star == x_star_of(e.args.x)
        J_alpha == dF_alpha_d_alpha(x_star, e.tk)
        J_eta == dF_alpha_d_eta(x_star, e.tk)
        I_N == Eye(N)
        Implicit == MatSub(I_N, Scale(Half(dt), J_alpha))
        stack == MatVec(U_eta_p, StackedEta(e.args.x))
        eta_k == SubVec(stack, 0, N_eta)
        eta_next == SubVec(MatVec(A_eta, stack), 0, N_eta)
    IN  /\ Rows(Implicit) = N /\ Cols(Implicit) = N
        /\ ~Singular(Implicit)
        /\ LET M == Inv(Implicit)
           IN  /\ SubMat(e.model.F, 0, N, 0, N)
                     = MatMul(M, MatAdd(I_N, Scale(Half(dt), J_alpha)))
               /\ SubMat(e.model.F, 0, N, N, Dim)
                     = MatMul(M, MatMul(Scale(Half(dt), J_eta),
                                        MatMul(MatAdd(TopBlockRow(A_eta), CurrentLagSelector),
                                               U_eta_p)))
               \* the same block, applied to the reduced stack of the estimate
               /\ MatVec(SubMat(e.model.F, 0, N, N, Dim), StackedEta(e.args.x))
                     = MatVec(M, MatVec(Scale(Half(dt), J_eta), VecAdd(eta_k, eta_next)))
        /\ MatVec(B_eta, stack) = VecAdd(eta_k, eta_next)
C16_JointTransitionAlphaRows ==
    cfg.driver = "state_iden_12" =>
        /\ CoefficientRow
        /\ \A i \in Entries("predict") : AlphaRows(log[i])
\* a second prediction under coefficient matrices on every lag, with a
\* parameter block that couples the parameters into alpha and with lags that
\* differ, so that the selector and the coefficient row both contribute
C16_Witness ==
    /\ cfg.driver = "state_iden_12" /\ cfg.eta_A = MixedAR
    /\ \E i \in Entries("predict") :
          /\ log[i].k = 1
          /\ SubMat(log[i].model.F, 0, N, N, Dim) # Zeros(N, eta_p * Nc_eta)
          /\ EtaBlock(log[i].args.x, 0) # EtaBlock(log[i].args.x, 1)
          /\ MatVec(SubMat(log[i].model.F, 0, N, N, Dim), StackedEta(log[i].args.x))
                # ZeroVec(N)

\* ------------------------------------------------------------------------
\* C17: joint transition, parameter rows.  In every F_evolution returned by
\* compute_evolution_operator the parameter-row/alpha-column block is zero,
\* the parameter/parameter block is UT_eta_p A_eta U_eta_p and the parameter
\* entries of b_evolution are zero: the predicted parameter stack is
\* UT_eta_p A_eta U_eta_p times the previous parameter stack (plus the
\* constant approximation-error mean of the filter), whatever alpha, the time
\* step and the Jacobians are.
\* ------------------------------------------------------------------------
ParameterTransition == MatMul(UT_eta_p, MatMul(A_eta, U_eta_p))
ParameterRows(F_ev, b_ev) ==
    /\ SubMat(F_ev, N, Dim, 0, N) = Zeros(eta_p * Nc_eta, N)
    /\ SubMat(F_ev, N, Dim, N, Dim) = ParameterTransition
    /\ SubVec(b_ev, N, Dim) = ZeroVec(eta_p * Nc_eta)
\* the loop indices whose transition has been returned and stored (line 274)
Returned ==
    IF cfg.driver # "state_iden_12" THEN {}
    ELSE {j \in 0..(NT - 1) : j < k \/ (j = k /\ pc \in {"model", "covariance", "predict",
                                                          "update", "time"})}
C17_JointTransitionParameterRows ==
    /\ \A j \in Returned : ParameterRows(At(F, j), At(b, j))
    /\ \A i \in Entries("predict") :
          /\ ParameterRows(log[i].model.F, log[i].model.additive_evolution_vector)
          \* the approximation-error mean is a constant of the run (zero
          \* unless use_BAE)
          /\ log[i].model.mean_epsilon = Kalman_filter(cfg, setup).mean_epsilon
          /\ StackedEta(log[i].out.x)
                = VecAdd(MatVec(ParameterTransition, StackedEta(log[i].args.x)),
                         StackedEta(log[i].model.mean_epsilon))
\* two predictions of one run whose alpha rows differ (other estimate, other
\* Jacobians) under a time step other than 1, with the same non-trivial
\* parameter rows
C17_Witness ==
    /\ cfg.driver = "state_iden_12" /\ cfg.eta_A = MixedAR /\ dt # 1
    /\ \E i, j \in Entries("predict") :
          /\ SubVec(log[i].args.x, 0, N) # SubVec(log[j].args.x, 0, N)
          /\ SubMat(log[i].model.F, 0, N, 0, Dim) # SubMat(log[j].model.F, 0, N, 0, Dim)
          /\ SubMat(log[i].model.F, N, Dim, 0, Dim) = SubMat(log[j].model.F, N, Dim, 0, Dim)
          /\ StackedEta(log[j].out.x) # StackedEta(log[j].args.x)
          /\ StackedEta(log[j].out.x) # ZeroVec(eta_p * Nc_eta)

\* ------------------------------------------------------------------------
\* C18: for every AR order eta_p >= 1 the constructed A_eta is
\* block-companion: block (0, j) is eta_A[j] for every j in 0..eta_p-1,
\* block (i+1, i) is the identity for every i in 0..eta_p-2, every other
\* block is zero, and for eta_p = 1 the matrix is eta_A[0] itself.
\* ------------------------------------------------------------------------
BlockOf(A, i, j) == SubMat(A, i * N_eta, (i + 1) * N_eta, j * N_eta, (j + 1) * N_eta)
BlockCompanion(A, eta_A, ord) ==
    /\ Rows(A) = ord * N_eta /\ Cols(A) = ord * N_eta
    /\ \A j \in 0..(ord - 1) : BlockOf(A, 0, j) = eta_A[j + 1]
    /\ \A i \in 0..(ord - 2) : BlockOf(A, i + 1, i) = Eye(N_eta)
    /\ \A i \in 1..(ord - 1) : \A j \in 0..(ord - 1) :
          j # i - 1 => BlockOf(A, i, j) = Zeros(N_eta, N_eta)
    /\ ord = 1 => A = eta_A[1]
C18_BlockCompanion ==
    (cfg.driver = "VAR_model" /\ pc = "done") =>
        /\ BlockCompanion(setup.A_eta, cfg.eta_A, cfg.eta_p)
        /\ Len(log) = cfg.eta_p - 1
        \* the order of the case study: the matrix the filter runs with
        /\ cfg.eta_p = eta_p => A_eta_of(cfg.eta_A) = setup.A_eta
\* a finished matrix of order three whose three coefficient matrices differ
\* from each other and from the identity
C18_Witness ==
    /\ cfg.driver = "VAR_model" /\ pc = "done" /\ cfg.eta_p = 3
    /\ Cardinality({cfg.eta_A[1], cfg.eta_A[2], cfg.eta_A[3], Eye(N_eta)}) = 4
    /\ BlockOf(setup.A_eta, 2, 1) = Eye(N_eta)
    /\ BlockOf(setup.A_eta, 0, 2) = cfg.eta_A[3]
\* the same for the orders one and two
C18_WitnessLowOrders ==
    /\ cfg.driver = "VAR_model" /\ pc = "done" /\ cfg.eta_p \in {1, 2}
    /\ cfg.eta_A[1] # Eye(N_eta)

\* ------------------------------------------------------------------------
\* C19: the current lag is lag block 0 everywhere.  C_eta applied to a
\* stacked reduced parameter vector returns its first Nc_eta entries; the
\* linearisation (Jacobians and transition), the transformation of the noise
\* covariance and the extraction of the per-time estimates x_c and Gamma_c
\* all read that block, and none of them reads another lag block as the
\* current parameter.
\* ------------------------------------------------------------------------
\* the unreduced state [alpha, eta] whose parameter is lag block 0 of x_tc
CurrentState(x_tc) ==
    SetSub(SetSub(ZeroVec(N + N_eta), 0, SubVec(x_tc, 0, N)),
           N, MatVec(U_eta, EtaBlock(x_tc, 0)))
\* block (i, j) of the parameter part of a stacked covariance
EtaCovBlock(G, i, j) ==
    SubMat(G, N + i * Nc_eta, N + (i + 1) * Nc_eta, N + j * Nc_eta, N + (j + 1) * Nc_eta)
\* x_tc with the lag blocks other than block 0 replaced by w in every entry
OtherLags(x_tc, w) ==
    Vec([i \in 1..Dim |-> IF i > N + Nc_eta THEN w ELSE x_tc[i]])
\* the alpha noise covariance the previous iteration left in the filter model
NoiseBefore(e) ==
    IF e.k = 0 THEN {SubMat(setup.Gamma_tilde_c_w, 0, N, 0, N)}
    ELSE {SubMat(log[i].model.Gamma_w, 0, N, 0, N) : i \in EntriesAt("predict", e.k - 1)}
LinearisedAtCurrentLag(e) ==
    LET x_star == CurrentState(e.args.x)
        J_alpha == dF_alpha_d_alpha(x_star, e.tk)
        J_eta == dF_alpha_d_eta(x_star, e.tk)
        M == Inv(ImplicitMatrix(J_alpha))
        G0 == MatMul(U_eta, MatMul(EtaCovBlock(setup.Gamma_tilde_c_w, 0, 0), UT_eta))
        induced ==
            Scale(FDiv(Sq(dt), 4),
                  MatMul(M, MatMul(MatMul(J_eta, MatMul(G0, Transpose(J_eta))),
                                   Transpose(M))))
    IN  /\ e.Jac.J_alpha_star = J_alpha /\ e.Jac.J_eta_star = J_eta
        /\ SubVec(e.model.additive_evolution_vector, 0, N)
              = MatVec(M, VecScale(dt, F_star_of(x_star, e.tk, J_alpha, J_eta)))
        /\ \A w \in Field :
              /\ x_star_of(OtherLags(e.args.x, w)) = x_star
              /\ compute_evolution_operator(OtherLags(e.args.x, w), e.tk, J_alpha, J_eta)
                    = [F_evolution |-> e.model.F,
                       b_evolution |-> e.model.additive_evolution_vector]
        /\ \A before \in NoiseBefore(e) :
              SubMat(e.model.Gamma_w, 0, N, 0, N) = MatAdd(before, induced)
NoiseOnCurrentLag ==
    /\ EtaCovBlock(setup.Gamma_tilde_c_w, 0, 0)
          = MatMul(UT_eta,
                   MatMul(compute_correlated_covariance_matrix(
                              N_eta, cfg.sigma_eta_w, cfg.sigma_eta_w_correlation),
                          U_eta))
    /\ \A i, j \in 0..(eta_p - 1) :
          i + j > 0 => EtaCovBlock(setup.Gamma_tilde_c_w, i, j) = Zeros(Nc_eta, Nc_eta)
ExtractedAtCurrentLag ==
    \A kk \in 0..(NT - 1) :
        /\ SubVec(At(output.x_c, kk), 0, N) = SubVec(At(x_tilde_c, kk), 0, N)
        /\ SubVec(At(output.x_c, kk), N, N + Nc_eta)
              = MatVec(C_eta, StackedEta(At(x_tilde_c, kk)))
        /\ SubVec(At(output.x_c, kk), N, N + Nc_eta) = EtaBlock(At(x_tilde_c, kk), 0)
        /\ SubMat(At(output.Gamma_c, kk), N, N + Nc_eta, N, N + Nc_eta)
              = EtaCovBlock(At(Gamma_tilde_c, kk), 0, 0)
        /\ SubMat(At(output.Gamma_c, kk), N, N + Nc_eta, N, N + Nc_eta)
              = MatMul(C_eta, MatMul(SubMat(At(Gamma_tilde_c, kk), N, Dim, N, Dim),
                                     Transpose(C_eta)))
        /\ At(output.x, kk) = CurrentState(At(x_tilde_c, kk))
C19_CurrentLagIsBlockZero ==
    cfg.driver = "state_iden_12" =>
        /\ log = <<>> =>
              /\ \A v \in StackedReduced : MatVec(C_eta, v) = SubVec(v, 0, Nc_eta)
              /\ NoiseOnCurrentLag
        /\ \A i \in Entries("predict") : LinearisedAtCurrentLag(log[i])
        /\ pc = "done" => ExtractedAtCurrentLag
\* a finished run of three time points whose lag blocks differ at the last
\* index, in mean and in covariance, and whose second linearisation was made
\* about an estimate with differing lag blocks
C19_Witness ==
    /\ cfg.driver = "state_iden_12" /\ pc = "done" /\ NT = 3
    /\ EtaBlock(At(x_tilde_c, 2), 0) # EtaBlock(At(x_tilde_c, 2), 1)
    /\ EtaCovBlock(At(Gamma_tilde_c, 2), 0, 0) # EtaCovBlock(At(Gamma_tilde_c, 2), 1, 1)
    /\ SubVec(At(output.x_c, 2), N, N + Nc_eta) # EtaBlock(At(x_tilde_c, 2), 1)
    /\ \E i \in EntriesAt("predict", 1) :
          /\ EtaBlock(log[i].args.x, 0) # EtaBlock(log[i].args.x, 1)
          /\ log[i].Jac.J_eta_star # Zeros(N, N_eta)

\* ------------------------------------------------------------------------
\* C20: observation use.  Over a complete forward pass every observation
\* column Y[:, j] with j in 1..NT-1 is assimilated exactly once, in
\* increasing order of j, by the update that produces the filtered estimate
\* at index j; Y[:, 0] is never assimilated, and the estimate at index 0 of
\* the forward pass is the prior.
\* ------------------------------------------------------------------------
DistinctColumns == \A i, j \in 0..(NT - 1) : i # j => At(Y, i) # At(Y, j)
\* the columns of Y that hold the vector y
ColumnsHolding(y) == {j \in 0..(NT - 1) : At(Y, j) = y}
Assimilates(e, j) ==
    /\ e.args.y = At(Y, j)
    /\ e.out = KF_update(e.model, e.args.x, e.args.Gamma, At(Y, j), e.args.k)
    /\ Forward12 => /\ At(x_tilde_c, j) = e.out.x
                    /\ At(Gamma_tilde_c, j) = e.out.Gamma
ObservationUse ==
    /\ \A i \in Entries("update") :
          /\ log[i].k + 1 \in 1..(NT - 1)
          /\ Assimilates(log[i], log[i].k + 1)
          /\ DistinctColumns => ColumnsHolding(log[i].args.y) = {log[i].k + 1}
    /\ \A i, j \in Entries("update") : i < j => log[i].k < log[j].k
    /\ ForwardPassOver =>
          \A j \in 1..(NT - 1) : Cardinality(EntriesAt("update", j - 1)) = 1
    /\ Forward12 =>
          /\ At(x_tilde_c, 0) = setup.x_tilde_c_prior
          /\ At(Gamma_tilde_c, 0) = setup.Gamma_tilde_c_prior
C20_ObservationUse == cfg.driver = "state_iden_12" => ObservationUse
\* a complete forward pass over three time points whose observation columns
\* all differ; both updates moved the estimate
C20_Witness ==
    /\ cfg.driver = "state_iden_12" /\ ForwardPassOver /\ Forward12
    /\ NT = 3 /\ DistinctColumns
    /\ Cardinality(Entries("update")) = 2
    /\ \A i \in Entries("update") : log[i].out.x # log[i].args.x
    /\ At(x_tilde_c, 2) # At(x_tilde_c, 1)

\* ------------------------------------------------------------------------
\* C21: in every forward step the update receives a time index that names
\* the time step of the observation column it receives, so that the
\* observation-noise covariance Gamma_v[j], built from Y[:, j], is the one
\* paired with the observation Y[:, j].
\* ------------------------------------------------------------------------
\* lines 185-187 for one observation column y
NoiseBuiltFrom(y) ==
    MatAdd(Scale(Sq(cfg.sigma_Y_multiplier), Diag(y)),
           Scale(Sq(cfg.sigma_v), Eye(M_of(cfg))))
\* the observation-noise covariance the update of entry e works with
NoiseUsed(e) == At(e.model.Gamma_v, e.args.k)
C21_NoiseOfTheSameTimeStep ==
    cfg.driver = "state_iden_12" =>
        \A i \in Entries("update") :
            /\ log[i].args.y = At(Y, log[i].args.k)
            /\ NoiseUsed(log[i]) = NoiseBuiltFrom(log[i].args.y)
\* what the loop does: the update of iteration k receives column k+1 with the
\* time index k, and so works with the covariance built from column k
C21_NoiseOfThePreviousColumn ==
    cfg.driver = "state_iden_12" =>
        \A i \in Entries("update") :
            /\ log[i].args.k = log[i].k
            /\ log[i].args.y = At(Y, log[i].args.k + 1)
            /\ NoiseUsed(log[i]) = NoiseBuiltFrom(At(Y, log[i].args.k))
            /\ InnovationCov(log[i].model, log[i].args.Gamma, log[i].args.k)
                  = MatAdd(MatMul(H, MatMul(log[i].args.Gamma, Transpose(H))),
                           NoiseBuiltFrom(At(Y, log[i].k)))
\* an update whose observation column and whose noise covariance come from
\* different columns with different values
C21_MismatchReached ==
    /\ cfg.driver = "state_iden_12"
    /\ \E i \in Entries("update") :
          /\ log[i].args.y # At(Y, log[i].args.k)
          /\ NoiseUsed(log[i]) # NoiseBuiltFrom(log[i].args.y)

\* ------------------------------------------------------------------------
\* C22: the forward loop modifies the filter's process-noise covariance
\* model.Gamma_w only in its alpha/alpha block: after any number of steps the
\* parameter/parameter block is the configured reduced covariance
\* Gamma_eta_tilde_c_w, in which only lag block 0 of the unreduced covariance
\* carries noise, and the alpha/parameter cross blocks are zero.
\* ------------------------------------------------------------------------
\* lines 202-205 written out: the noise of eta in lag block (0, 0), reduced
ConfiguredParameterNoise ==
    LET Gamma_eta_w == compute_correlated_covariance_matrix(
                           N_eta, cfg.sigma_eta_w, cfg.sigma_eta_w_correlation)
    IN  Mat([i \in 1..(eta_p * Nc_eta) |-> [j \in 1..(eta_p * Nc_eta) |->
            IF i <= Nc_eta /\ j <= Nc_eta
            THEN MatMul(UT_eta, MatMul(Gamma_eta_w, U_eta))[i][j]
            ELSE 0]])
OutsideAlphaBlockAsConfigured(G) ==
    /\ SubMat(G, N, Dim, N, Dim) = ConfiguredParameterNoise
    /\ SubMat(G, N, Dim, N, Dim) = Gamma_eta_tilde_c_w_of(cfg)
    /\ SubMat(G, 0, N, N, Dim) = Zeros(N, eta_p * Nc_eta)
    /\ SubMat(G, N, Dim, 0, N) = Zeros(eta_p * Nc_eta, N)
C22_ProcessNoiseFrame ==
    cfg.driver = "state_iden_12" =>
        /\ OutsideAlphaBlockAsConfigured(model.Gamma_w)
        /\ \A i \in 1..Len(log) : OutsideAlphaBlockAsConfigured(log[i].model.Gamma_w)
\* two steps have changed the alpha block twice while the parameter block
\* carries noise
C22_Witness ==
    /\ cfg.driver = "state_iden_12" /\ pc = "predict" /\ k = 1
    /\ ConfiguredParameterNoise # Zeros(eta_p * Nc_eta, eta_p * Nc_eta)
    /\ SubMat(model.Gamma_w, 0, N, 0, N) # SubMat(log[1].model.Gamma_w, 0, N, 0, N)
    /\ SubMat(log[1].model.Gamma_w, 0, N, 0, N) # SubMat(setup.Gamma_tilde_c_w, 0, N, 0, N)

\* ------------------------------------------------------------------------
\* C23: stored transitions handed to the smoother.  After a complete forward
\* pass, for every k in 0..NT-2 the stored pair (F[k], b[:, k]) is the
\* transition that was used to predict index k+1 from the filtered estimate
\* at index k, and F[NT-1] and b[:, NT-1] were never written and are zero.
\* ------------------------------------------------------------------------
\* the stored pair of index j is the transition of the one prediction of
\* index j+1, which started from the filtered estimate of index j
StoredTransitionUsed(Fs, bs, j) ==
    /\ Cardinality(EntriesAt("predict", j)) = 1
    /\ \A i \in EntriesAt("predict", j) :
          /\ At(Fs, j) = log[i].model.F
          /\ At(bs, j) = log[i].model.additive_evolution_vector
          /\ [x |-> log[i].args.x, Gamma |-> log[i].args.Gamma] \in ForwardFiltered(j)
          /\ log[i].out.x = At(x_tilde_c_predict, j + 1)
          /\ log[i].out.x
                = VecAdd(VecAdd(MatVec(At(Fs, j), log[i].args.x), At(bs, j)),
                         log[i].model.mean_epsilon)
LastTransitionUnwritten(Fs, bs) ==
    /\ EntriesAt("predict", NT - 1) = {}
    /\ At(Fs, NT - 1) = Zeros(Dim, Dim)
    /\ At(bs, NT - 1) = ZeroVec(Dim)
C23_StoredTransitions ==
    ForwardPassOver =>
        /\ \A j \in 0..(NT - 2) : StoredTransitionUsed(F, b, j)
        /\ LastTransitionUnwritten(F, b)
        /\ \A c \in 1..Len(smoother_calls) :
              /\ smoother_calls[c].F = F
              /\ Len(smoother_calls[c].F) = NT
\* a smoother was handed two different stored transitions and the zero one
C23_Witness ==
    /\ ForwardPassOver /\ cfg.smoothing /\ NT = 3 /\ Len(smoother_calls) = 1
    /\ At(smoother_calls[1].F, 0) # At(smoother_calls[1].F, 1)
    /\ At(smoother_calls[1].F, 1) # Zeros(Dim, Dim)
    /\ At(smoother_calls[1].F, 2) = Zeros(Dim, Dim)
    /\ At(b, 1) # ZeroVec(Dim)

\* ------------------------------------------------------------------------
\* C24: in both observation-model branches H has shape M x (N + eta_p Nc_eta),
\* the dimension of the state, of F_evolution and b_evolution and of the
\* noise and prior covariances; its first N columns are the alpha observation
\* operator and every column of the parameter block is zero, so the expected
\* observation depends on the distribution coefficients only.
\* ------------------------------------------------------------------------
HasShape(A, n, m) == Len(A) = n /\ \A i \in 1..n : Len(A[i]) = m
StateDimension == N + eta_p * Nc_eta
\* x_tc with every entry of the parameter stack replaced by w
OtherParameters(x_tc, w) == Vec([i \in 1..Dim |-> IF i > N THEN w ELSE x_tc[i]])
Dimensions ==
    /\ Dim = StateDimension
    /\ HasShape(H, setup.M, StateDimension)
    /\ HasShape(model.H, setup.M, StateDimension)
    /\ setup.M = (IF cfg.use_DMPS_observation_model THEN N_channels ELSE Len(At(Y, 0)))
    /\ \A j \in 0..(NT - 1) :
          /\ Len(At(Y, j)) = setup.M
          /\ Len(At(x_tilde_c, j)) = StateDimension
          /\ Len(At(x_tilde_c_predict, j)) = StateDimension
          /\ HasShape(At(Gamma_tilde_c, j), StateDimension, StateDimension)
          /\ HasShape(At(F, j), StateDimension, StateDimension)
          /\ Len(At(b, j)) = StateDimension
    /\ HasShape(model.F, StateDimension, StateDimension)
    /\ Len(model.additive_evolution_vector) = StateDimension
    /\ HasShape(model.Gamma_w, StateDimension, StateDimension)
    /\ HasShape(setup.Gamma_tilde_c_w, StateDimension, StateDimension)
    /\ HasShape(setup.Gamma_tilde_c_prior, StateDimension, StateDimension)
    /\ Len(setup.x_tilde_c_prior) = StateDimension
ObservesAlphaOnly(Hm) ==
    /\ SubMat(Hm, 0, setup.M, 0, N) = H_alpha_of(cfg)
    /\ SubMat(Hm, 0, setup.M, N, Dim) = Zeros(setup.M, eta_p * Nc_eta)
C24_ObservationOperator ==
    cfg.driver = "state_iden_12" =>
        /\ Dimensions
        /\ ObservesAlphaOnly(H)
        /\ \A i \in Entries("update") :
              /\ ObservesAlphaOnly(log[i].model.H)
              /\ MatVec(log[i].model.H, log[i].args.x)
                    = MatVec(H_alpha_of(cfg), SubVec(log[i].args.x, 0, N))
              /\ \A w \in Field :
                    MatVec(log[i].model.H, OtherParameters(log[i].args.x, w))
                        = MatVec(log[i].model.H, log[i].args.x)
\* an update under the DMPS observation model whose predicted state has a
\* non-zero parameter stack and a non-zero expected observation
C24_Witness ==
    /\ cfg.driver = "state_iden_12" /\ cfg.use_DMPS_observation_model
    /\ \E i \in Entries("update") :
          /\ StackedEta(log[i].args.x) # ZeroVec(eta_p * Nc_eta)
          /\ MatVec(log[i].model.H, log[i].args.x) # ZeroVec(setup.M)
          /\ log[i].k = 1
\* the same under the size-distribution observation model
C24_WitnessSizeDistribution ==
    /\ cfg.driver = "state_iden_12" /\ ~cfg.use_DMPS_observation_model
    /\ \E i \in Entries("update") :
          /\ StackedEta(log[i].args.x) # ZeroVec(eta_p * Nc_eta)
          /\ MatVec(log[i].model.H, log[i].args.x) # ZeroVec(setup.M)
          /\ log[i].k = 1
====
